---- MODULE Spec2Model ----
(***************************************************************************)
(* Model of the robot firmware of BraxTos/EmbeddedSystems.                 *)
(*                                                                         *)
(*  - src/Arduino/Arduino.ino : the command language, the asynchronous     *)
(*    commands (ICommand / TimedCommand), CommandParser, ProgramRunner,    *)
(*    MemoryFile / MemoryFileSystem, ButtonStartTrigger, RunControl and    *)
(*    ProgramController, driven by loop().                                 *)
(*  - src/Arduino/Robot_r.ino : the stop interrupt isrStop, shouldStopNow  *)
(*    and smartDelay, the START button, Forw, Rotate and the fixed route   *)
(*    of loop().                                                           *)
(*                                                                         *)
(* Text lines are sequences of one-character strings, so that trim,        *)
(* startsWith, charAt, indexOf, substring and toFloat are computed as the  *)
(* Arduino String class computes them.  Heap objects (ICommand, MemoryFile)*)
(* live in the maps cmds and files, keyed by address; a pointer is an      *)
(* address or NULL.                                                        *)
(***************************************************************************)
EXTENDS Integers, Sequences, FiniteSets, TLC

VARIABLES
    entries,      \* MemoryFileSystem::entries (the catalog, fixed at construction)
    now,          \* millis(), an unsigned long
    last,         \* ButtonStartTrigger::last
    enabled,      \* RunControl::enabled
    file,         \* ProgramRunner::file
    current,      \* ProgramRunner::current
    running,      \* ProgramRunner::running
    finishedAll,  \* ProgramRunner::finishedAll
    cmds,         \* the live ICommand objects, by address
    files,        \* the live MemoryFile objects, by address
    fsActive,     \* MemoryFileSystem::active
    motion,       \* the motion command the motor driver is holding
    paint,        \* the painter's state
    acts,         \* actuator commands issued by the last operation, in order
    reports,      \* Serial lines printed by the last operation, in order
    freed,        \* ICommand objects deleted by the last operation
    op,           \* the last operation performed
    startedLog,   \* the primitives started since the last ProgramRunner::start
    cycles,       \* ProgramRunner::update calls since the last start that found running
                  \* and the clock advanced (capped)
    restarted,    \* the running program was started after an earlier one finished
    ticks,        \* clock periods elapsed since power-up
    \* Robot_r.ino
    millis,       \* millis() of the sensor-equipped sketch
    stopReq,      \* volatile bool stopReq
    isrLast,      \* isrStop's static last
    motorDir,     \* the direction byte latched into the shift register
    motorSpeed,   \* the PWM duty on both PWM pins
    enPin,        \* the level of EN_PIN
    sdPc,         \* where smartDelay is: "idle", "t0", "while", "check", "delay", "done"
    sdMs,         \* smartDelay's argument ms
    sdT0,         \* smartDelay's local t0
    sdLeft,       \* milliseconds left of the delay(2) in progress
    sdRet,        \* smartDelay's return value
    sdFlagSeen,   \* isrStop set stopReq at some moment since smartDelay was called
    sdSetAt,      \* millis() when stopReq was first set during the call, or -1
    pc,           \* where the main program of Robot_r.ino is, outside smartDelay
    runEnabled,   \* bool runEnabled
    route,        \* the statement of loop()'s route being executed, 0 outside it
    rot,          \* Rotate's locals
    forw,         \* Forw's locals
    btn,          \* BTN_START's level and pollStartButton's statics
    sensor,       \* the errors the gyroscope's coming readings show, the last one held
    hist,         \* what has happened in the current invocation or wait
    deadline,     \* the clock reading at which the explored run ends
    norm          \* norm180's argument a and the value it returned, once called

arduinoVars ==
    <<entries, now, last, enabled, file, current, running, finishedAll,
      cmds, files, fsActive, motion, paint, acts, reports, freed, op,
      startedLog, cycles, restarted, ticks>>

motorVars == <<motorDir, motorSpeed, enPin>>

sdVars == <<sdPc, sdMs, sdT0, sdLeft, sdRet, sdFlagSeen, sdSetAt>>

sketchVars == <<pc, runEnabled, route, rot, forw, btn, sensor, hist, deadline>>

robotVars == <<millis, stopReq, isrLast, motorVars, sdVars, sketchVars, norm>>

vars == <<arduinoVars, robotVars>>

----------------------------------------------------------------------------
(* Bounds of the model *)

MaxRecords == 3      \* longest program in the catalog
MaxTicks == 4        \* clock periods explored
MaxDelay == 5        \* longest wait asked of smartDelay, in ms
DelayRun == 12       \* smartDelay is not called later than this after setup(), in ms
SketchRun == 150     \* the sketch is followed for this long, in ms
MaxStops == 1        \* STOP presses the interrupt accepts in an explored run
MaxToggles == 3      \* presses and releases of START since boot
RotateRun == 420     \* a call of Rotate is followed for this long, in ms
MaxAngle == 720      \* norm180 is given the whole degrees from -MaxAngle to MaxAngle
\* Cap of the counter cycles: more than any run of a catalog program takes
\* while the clock advances
MaxCycles == 3 * MaxRecords + 2

CyclePeriod == 500   \* the clock advance of one loop() iteration, in ms

\* The width of unsigned long in the model.  The board's is 32 bits; the model
\* keeps the modular arithmetic and a narrower word, every duration fitting in it.
ClockBits == 16
ClockMod == 2 ^ ClockBits

(* Program constants *)

ROTATE_90_MS == 420

NULL == 0

----------------------------------------------------------------------------
(* Arduino String operations, on sequences of characters *)

IsSpace(c) == c \in {" ", "\t", "\n", "\r"}

Digits == <<"0", "1", "2", "3", "4", "5", "6", "7", "8", "9">>

IsDigit(c) == \E i \in 1..10 : Digits[i] = c

DigitVal(c) == (CHOOSE i \in 1..10 : Digits[i] = c) - 1

RECURSIVE TrimLeft(_)
TrimLeft(s) ==
    IF s # <<>> /\ IsSpace(Head(s)) THEN TrimLeft(Tail(s)) ELSE s

RECURSIVE TrimRight(_)
TrimRight(s) ==
    IF s # <<>> /\ IsSpace(s[Len(s)]) THEN TrimRight(SubSeq(s, 1, Len(s) - 1)) ELSE s

Trim(s) == TrimRight(TrimLeft(s))

StartsWith(s, t) == Len(s) >= Len(t) /\ SubSeq(s, 1, Len(t)) = t

\* String::indexOf(ch): the 0-based index of the first ch, or -1
IndexOf(s, ch) ==
    IF \E i \in 1..Len(s) : s[i] = ch
    THEN (CHOOSE i \in 1..Len(s) : s[i] = ch /\ \A j \in 1..(i - 1) : s[j] # ch) - 1
    ELSE -1

\* String::substring(from), from 0-based
Substring(s, from) == SubSeq(s, from + 1, Len(s))

RECURSIVE DigitsValue(_, _)
DigitsValue(s, acc) ==
    IF s # <<>> /\ IsDigit(Head(s))
    THEN DigitsValue(Tail(s), 10 * acc + DigitVal(Head(s)))
    ELSE acc

\* String::toFloat on an unsigned whole number: leading white space is skipped,
\* the digits are read, and text that is no number gives 0
ToFloat(s) == DigitsValue(TrimLeft(s), 0)

----------------------------------------------------------------------------
(* Command language *)

Chars(str) ==
    CASE str = "F" -> <<"F">>
      [] str = "B" -> <<"B">>
      [] str = "L" -> <<"L">>
      [] str = "R" -> <<"R">>
      [] str = "paintON" -> <<"p", "a", "i", "n", "t", "O", "N">>
      [] str = "paintOFF" -> <<"p", "a", "i", "n", "t", "O", "F", "F">>
      [] str = "WAIT" -> <<"W", "A", "I", "T">>

COMMAND_TABLE ==
    << [token |-> Chars("F"),        id |-> "Forward",  hasArgument |-> TRUE],
       [token |-> Chars("B"),        id |-> "Backward", hasArgument |-> TRUE],
       [token |-> Chars("L"),        id |-> "Left90",   hasArgument |-> FALSE],
       [token |-> Chars("R"),        id |-> "Right90",  hasArgument |-> FALSE],
       [token |-> Chars("paintON"),  id |-> "PaintOn",  hasArgument |-> FALSE],
       [token |-> Chars("paintOFF"), id |-> "PaintOff", hasArgument |-> FALSE],
       [token |-> Chars("WAIT"),     id |-> "Wait",     hasArgument |-> TRUE] >>

COMMAND_COUNT == Len(COMMAND_TABLE)

TimedIds == {"Forward", "Backward", "Left90", "Right90", "Wait"}

\* A command object as the factory builds it: the fields of TimedCommand
\* (duration, startTime, active) and of CmdPaintOn / CmdPaintOff (done)
CommandFactory_create(id, value) ==
    [kind |-> id,
     duration |-> CASE id \in {"Forward", "Backward", "Wait"} -> value % ClockMod
                    [] id \in {"Left90", "Right90"} -> ROTATE_90_MS
                    [] OTHER -> 0,
     startTime |-> 0,
     active |-> FALSE,
     done |-> FALSE]

NoCommand == [kind |-> "null", duration |-> 0, startTime |-> 0,
              active |-> FALSE, done |-> FALSE]

startsWithToken(line, token) ==
    IF ~StartsWith(line, token) THEN FALSE
    ELSE IF Len(line) = Len(token) THEN TRUE
    ELSE line[Len(token) + 1] \in {" ", "\t"}

extractArgument(line) ==
    LET p == IndexOf(line, " ")
    IN  IF p < 0 THEN 0 ELSE ToFloat(Substring(line, p + 1))

\* CommandParser::parse: the command of the first table row whose token starts
\* the trimmed line, or NoCommand (nullptr)
CommandParser_parse(raw) ==
    LET line == Trim(raw)
        hits == {i \in 1..COMMAND_COUNT : startsWithToken(line, COMMAND_TABLE[i].token)}
    IN  IF Len(line) = 0 \/ hits = {} THEN NoCommand
        ELSE LET i == CHOOSE k \in hits : \A j \in hits : k <= j
                 spec == COMMAND_TABLE[i]
             IN  CommandFactory_create(spec.id,
                     IF spec.hasArgument THEN extractArgument(line) ELSE 0)

----------------------------------------------------------------------------
(* The program state as one record, so that a handler is a function on it *)

World ==
    [entries |-> entries, now |-> now, last |-> last, enabled |-> enabled,
     file |-> file, current |-> current, running |-> running,
     finishedAll |-> finishedAll, cmds |-> cmds, files |-> files,
     fsActive |-> fsActive, motion |-> motion, paint |-> paint,
     acts |-> acts, reports |-> reports, freed |-> freed,
     startedLog |-> startedLog, cycles |-> cycles,
     restarted |-> restarted,
     advanced |-> FALSE]   \* an input: the clock advanced since the last iteration

\* The outputs of an operation start empty
Fresh(w) == [w EXCEPT !.acts = <<>>, !.reports = <<>>, !.freed = 0]

Commit(w) ==
    /\ entries' = w.entries
    /\ now' = w.now
    /\ last' = w.last
    /\ enabled' = w.enabled
    /\ file' = w.file
    /\ current' = w.current
    /\ running' = w.running
    /\ finishedAll' = w.finishedAll
    /\ cmds' = w.cmds
    /\ files' = w.files
    /\ fsActive' = w.fsActive
    /\ motion' = w.motion
    /\ paint' = w.paint
    /\ acts' = w.acts
    /\ reports' = w.reports
    /\ freed' = w.freed
    /\ startedLog' = w.startedLog
    /\ cycles' = w.cycles
    /\ restarted' = w.restarted

Min(a, b) == IF a <= b THEN a ELSE b

\* operator new: the lowest free address
NewAddr(heap) ==
    CHOOSE a \in 1..(Cardinality(DOMAIN heap) + 1) :
        a \notin DOMAIN heap /\ \A b \in 1..(a - 1) : b \in DOMAIN heap

Alloc(heap, a, obj) == [x \in DOMAIN heap \cup {a} |-> IF x = a THEN obj ELSE heap[x]]

Free(heap, a) == [x \in DOMAIN heap \ {a} |-> heap[x]]

Serial_println(w, tag, text) ==
    [w EXCEPT !.reports = Append(@, [tag |-> tag, text |-> text])]

Printed(log, tag) == \E i \in 1..Len(log) : log[i].tag = tag

----------------------------------------------------------------------------
(* Robot: the facade over the motor driver and the painter *)

Robot_move(w, m) == [w EXCEPT !.motion = m, !.acts = Append(@, m)]

Robot_stop(w) == Robot_move(w, "stop")

Robot_paint(w, v) ==
    [w EXCEPT !.paint = v, !.acts = Append(@, IF v THEN "paintOn" ELSE "paintOff")]

----------------------------------------------------------------------------
(* ICommand: start, update, finished *)

TimedCommand_start(w, a) ==
    [w EXCEPT !.cmds[a].startTime = w.now, !.cmds[a].active = TRUE]

\* The start() of the command at address a
Command_start(w, a) ==
    LET k == w.cmds[a].kind
        logged == [w EXCEPT !.startedLog =
                       Append(@, [kind |-> k, duration |-> w.cmds[a].duration])]
    IN  CASE k = "Forward"  -> TimedCommand_start(Robot_move(logged, "forward"), a)
          [] k = "Backward" -> TimedCommand_start(Robot_move(logged, "backward"), a)
          [] k = "Left90"   -> TimedCommand_start(Robot_move(logged, "rotateLeft"), a)
          [] k = "Right90"  -> TimedCommand_start(Robot_move(logged, "rotateRight"), a)
          [] k = "Wait"     -> TimedCommand_start(Robot_stop(logged), a)
          [] k = "PaintOn"  -> [Robot_paint(logged, TRUE) EXCEPT !.cmds[a].done = TRUE]
          [] k = "PaintOff" -> [Robot_paint(logged, FALSE) EXCEPT !.cmds[a].done = TRUE]

\* The elapsed time as a signed difference, without the wrap of unsigned long
Elapsed_signed(t, t0) == t - t0

\* now - startTime, in unsigned long arithmetic
Elapsed(t, t0) == (t - t0) % ClockMod

TimedCommand_update(w, a) ==
    LET c == w.cmds[a]
    IN  IF ~c.active THEN w
        ELSE IF Elapsed(w.now, c.startTime) >= c.duration
             THEN [Robot_stop(w) EXCEPT !.cmds[a].active = FALSE]
             ELSE w

Command_update(w, a) ==
    IF w.cmds[a].kind \in TimedIds THEN TimedCommand_update(w, a) ELSE w

Command_finished(c) ==
    IF c.kind \in TimedIds THEN ~c.active ELSE c.done

----------------------------------------------------------------------------
(* MemoryFile and MemoryFileSystem *)

MemoryFile(lines, count) == [lines |-> lines, count |-> count, idx |-> 0]

MemoryFile_available(f) == f.idx < f.count

\* MemoryFileSystem::open: the first entry of that name replaces the active
\* file by a new one, read from its start; no entry gives nullptr
RECURSIVE FindEntry(_, _, _)
FindEntry(es, name, i) ==
    IF i > Len(es) THEN 0
    ELSE IF es[i].name = name THEN i
    ELSE FindEntry(es, name, i + 1)

\* MemoryFileSystem::open that hands out the active file again, unrewound
MemoryFileSystem_open_reuse(w, name) ==
    LET i == FindEntry(w.entries, name, 1)
    IN  IF i = 0 THEN [w |-> w, f |-> NULL]
        ELSE IF w.fsActive # NULL THEN [w |-> w, f |-> w.fsActive]
        ELSE LET a == NewAddr(w.files)
             IN  [w |-> [w EXCEPT
                           !.files = Alloc(w.files, a,
                                MemoryFile(w.entries[i].lines, w.entries[i].count)),
                           !.fsActive = a],
                  f |-> a]

MemoryFileSystem_open(w, name) ==
    LET i == FindEntry(w.entries, name, 1)
    IN  IF i = 0 THEN [w |-> w, f |-> NULL]
        ELSE LET heap == IF w.fsActive = NULL THEN w.files
                         ELSE Free(w.files, w.fsActive)
                 a == NewAddr(heap)
             IN  [w |-> [w EXCEPT
                           !.files = Alloc(heap, a,
                                MemoryFile(w.entries[i].lines, w.entries[i].count)),
                           !.fsActive = a],
                  f |-> a]

DefaultProgramSelector_selectProgram == "square.txt"

----------------------------------------------------------------------------
(* ProgramRunner *)

\* ProgramRunner::stop that keeps the program reference
ProgramRunner_stop_keepsFile(w) ==
    LET w1 == IF w.current # NULL
              THEN [w EXCEPT !.cmds = Free(@, w.current), !.current = NULL,
                             !.freed = @ + 1]
              ELSE w
    IN  [Robot_stop(w1) EXCEPT !.running = FALSE, !.finishedAll = FALSE]

ProgramRunner_stop(w) ==
    LET w1 == IF w.current # NULL
              THEN [w EXCEPT !.cmds = Free(@, w.current), !.current = NULL,
                             !.freed = @ + 1]
              ELSE w
    IN  [Robot_stop(w1) EXCEPT !.file = NULL, !.running = FALSE,
                               !.finishedAll = FALSE]

\* ProgramRunner::start that does not stop() first
ProgramRunner_start_noStop(w, f) ==
    [w EXCEPT !.file = f, !.running = (f # NULL),
              !.startedLog = <<>>, !.cycles = 0,
              !.restarted = w.finishedAll]

ProgramRunner_start(w, f) ==
    LET w1 == ProgramRunner_stop(w)
    IN  [w1 EXCEPT !.file = f, !.running = (f # NULL),
                   !.startedLog = <<>>, !.cycles = 0,
                   !.restarted = w.finishedAll]

\* ProgramRunner::update that ends the run on a record it cannot parse
ProgramRunner_update_abortOnUnknown(w) ==
    IF ~w.running THEN w
    ELSE LET c == [w EXCEPT !.cycles = IF w.advanced THEN Min(@ + 1, MaxCycles) ELSE @]
         IN  IF c.current # NULL
             THEN LET u == Command_update(c, c.current)
                  IN  IF Command_finished(u.cmds[u.current])
                      THEN [u EXCEPT !.cmds = Free(@, u.current), !.current = NULL,
                                     !.freed = @ + 1]
                      ELSE u
             ELSE IF c.file = NULL \/ ~MemoryFile_available(c.files[c.file])
             THEN [Robot_stop(c) EXCEPT !.running = FALSE, !.finishedAll = TRUE]
             ELSE LET f == c.files[c.file]
                      line == f.lines[f.idx + 1]
                      r == Serial_println([c EXCEPT !.files[c.file].idx = @ + 1],
                                          "line", line)
                      cmd == CommandParser_parse(line)
                  IN  IF cmd = NoCommand
                      THEN [Robot_stop(r) EXCEPT !.running = FALSE, !.finishedAll = TRUE]
                      ELSE LET a == NewAddr(r.cmds)
                           IN  Command_start(
                                   [r EXCEPT !.cmds = Alloc(@, a, cmd), !.current = a], a)

ProgramRunner_update(w) ==
    IF ~w.running THEN w
    ELSE LET c == [w EXCEPT !.cycles = IF w.advanced THEN Min(@ + 1, MaxCycles) ELSE @]
         IN  IF c.current # NULL
             THEN LET u == Command_update(c, c.current)
                  IN  IF Command_finished(u.cmds[u.current])
                      THEN [u EXCEPT !.cmds = Free(@, u.current), !.current = NULL,
                                     !.freed = @ + 1]
                      ELSE u
             ELSE IF c.file = NULL \/ ~MemoryFile_available(c.files[c.file])
             THEN [Robot_stop(c) EXCEPT !.running = FALSE, !.finishedAll = TRUE]
             ELSE LET f == c.files[c.file]
                      line == f.lines[f.idx + 1]
                      r == Serial_println([c EXCEPT !.files[c.file].idx = @ + 1],
                                          "line", line)
                      cmd == CommandParser_parse(line)
                  IN  IF cmd = NoCommand THEN r
                      ELSE LET a == NewAddr(r.cmds)
                           IN  Command_start(
                                   [r EXCEPT !.cmds = Alloc(@, a, cmd), !.current = a], a)

----------------------------------------------------------------------------
(* ButtonStartTrigger and ProgramController *)

\* startRequested that reports the button's level, not its rising edge
ButtonStartTrigger_startRequested_level(w, cur) ==
    [w |-> [w EXCEPT !.last = cur], edge |-> cur]

\* ButtonStartTrigger::startRequested with the button read as cur
ButtonStartTrigger_startRequested(w, cur) ==
    [w |-> [w EXCEPT !.last = cur], edge |-> cur /\ ~w.last]

\* ProgramController::update's start branch without the "already running" test
ProgramController_onStart_noRunningTest(w) ==
    IF ~w.enabled THEN Serial_println(w, "blocked", <<>>)
    ELSE LET name == DefaultProgramSelector_selectProgram
             o == MemoryFileSystem_open(w, name)
         IN  IF o.f = NULL THEN Serial_println(o.w, "not found", <<name>>)
             ELSE ProgramRunner_start(Serial_println(o.w, "start", <<name>>), o.f)

\* ProgramController::update's start branch without the null test on the file
ProgramController_onStart_noNullTest(w) ==
    IF ~w.enabled THEN Serial_println(w, "blocked", <<>>)
    ELSE IF w.running THEN Serial_println(w, "already running", <<>>)
    ELSE LET name == DefaultProgramSelector_selectProgram
             o == MemoryFileSystem_open(w, name)
         IN  ProgramRunner_start(
                 Serial_println(o.w, IF o.f = NULL THEN "not found" ELSE "start",
                                <<name>>), o.f)

\* The branch of ProgramController::update taken on a start edge
ProgramController_onStart(w) ==
    IF ~w.enabled THEN Serial_println(w, "blocked", <<>>)
    ELSE IF w.running THEN Serial_println(w, "already running", <<>>)
    ELSE LET name == DefaultProgramSelector_selectProgram
             o == MemoryFileSystem_open(w, name)
         IN  IF o.f = NULL THEN Serial_println(o.w, "not found", <<name>>)
             ELSE ProgramRunner_start(Serial_println(o.w, "start", <<name>>), o.f)

\* The second half of ProgramController::update without its isRunEnabled() test
ProgramController_run_always(w) ==
    LET u == ProgramRunner_update(w)
    IN  IF u.finishedAll
        THEN Serial_println(u, "finished", <<>>)
        ELSE u

\* The second half of ProgramController::update
ProgramController_run(w) ==
    IF w.enabled
    THEN LET u == ProgramRunner_update(w)
         IN  IF u.finishedAll
             THEN Serial_println(u, "finished", <<>>)
             ELSE u
    ELSE w

ProgramController_update(w, cur) ==
    LET t == ButtonStartTrigger_startRequested(w, cur)
    IN  ProgramController_run(IF t.edge THEN ProgramController_onStart(t.w) ELSE t.w)

----------------------------------------------------------------------------
(* The inputs: program lines, programs, catalogs, clock readings *)

Lines ==
    { <<"F", " ", "9", "0", "0">>,
      <<"p", "a", "i", "n", "t", "O", "N">>,
      <<"?", "?", "?">>,
      <<" ", " ">> }

RECURSIVE SeqsUpTo(_, _)
SeqsUpTo(S, n) ==
    IF n = 0 THEN {<<>>}
    ELSE LET shorter == SeqsUpTo(S, n - 1)
         IN  shorter \cup {Append(p, l) : p \in {q \in shorter : Len(q) = n - 1}, l \in S}

Programs == SeqsUpTo(Lines, MaxRecords)

Entry(name, lines) == [name |-> name, lines |-> lines, count |-> Len(lines)]

\* A catalog holds triangle.txt and, unless the program is missing, square.txt
Catalogs ==
    {<<Entry("triangle.txt", <<>>)>>}
    \cup {<<Entry("triangle.txt", <<>>), Entry("square.txt", p)>> : p \in Programs}

\* The clock at the first iteration explored: two periods before millis() wraps,
\* so that runs begin before the wrap and after it
StartTime == ClockMod - 2 * CyclePeriod

----------------------------------------------------------------------------
(* Robot_r.ino: motor output, the stop interrupt, the interruptible delay *)

Stop == 0
Forward == 106
RotateRight == 101
RotateLeft == 154
SLICE_MS == 2        \* the delay(2) of smartDelay
DEBOUNCE_MS == 80    \* isrStop's debounce
BOOT_DELAY_1 == 200  \* setup()'s delay(200)
BOOT_DELAY_2 == 500  \* setup()'s delay(500)

\* millis() when setup() returns, the sensor start-up and the calibration
\* taken as instantaneous
SetupMs == BOOT_DELAY_1 + BOOT_DELAY_2

\* enableMotors: EN_ACTIVE_LOW is true, so LOW enables and HIGH disables
EnLevel(en) == IF en THEN "LOW" ELSE "HIGH"

\* Motor(Dir, Speed): the direction byte, the PWM duty and the EN level it leaves
Motor(Dir, Speed) ==
    IF Speed <= 0 \/ Dir = Stop
    THEN [dir |-> Stop, speed |-> 0, en |-> EnLevel(FALSE)]
    ELSE [dir |-> Dir, speed |-> Speed, en |-> EnLevel(TRUE)]

MotorState == [dir |-> motorDir, speed |-> motorSpeed, en |-> enPin]

SetMotor(m) ==
    /\ motorDir' = m.dir
    /\ motorSpeed' = m.speed
    /\ enPin' = m.en

\* shouldStopNow's Motor(Stop, 0); enableMotors(false);
StopAndDisable == [Motor(Stop, 0) EXCEPT !.en = EnLevel(FALSE)]

\* Rotate's locals before any invocation
NoRotate ==
    [phi |-> 0, target |-> 0, overshot |-> FALSE, t0 |-> 0, stableCnt |-> 0,
     sign0 |-> 1, i |-> 0, cmd2 |-> Stop, err2pos |-> TRUE, ret |-> FALSE]

\* Forw's locals before any invocation
NoForw == [start |-> 0, i |-> 0]

\* BTN_START released (INPUT_PULLUP reads HIGH) and pollStartButton's statics as
\* initialised
BtnInit == [pin |-> "HIGH", stable |-> "HIGH", lastRead |-> "HIGH", tLast |-> 0]

\* Nothing has happened yet
NoHist ==
    [isr |-> FALSE, tolRun |-> 0, crossed |-> FALSE, everTol |-> FALSE,
     allTol |-> TRUE, mainSamples |-> 0, pressed |-> FALSE, isrSince |-> FALSE,
     stopInStep |-> FALSE, stops |-> 0, toggles |-> 0]

\* The state of Robot_r.ino after setup(), the clock reading one of t and the
\* run explored for h ms
RobotInit(t, h, scripts) ==
    /\ millis \in t
    /\ sensor \in scripts
    /\ deadline = millis + h
    /\ stopReq = FALSE
    /\ isrLast = 0
    /\ motorDir = Motor(Stop, 0).dir
    /\ motorSpeed = Motor(Stop, 0).speed
    /\ enPin = Motor(Stop, 0).en
    /\ sdPc = "idle"
    /\ sdMs = 0
    /\ sdT0 = 0
    /\ sdLeft = 0
    /\ sdRet = FALSE
    /\ sdFlagSeen = FALSE
    /\ sdSetAt = -1
    /\ pc = "L_top"
    /\ runEnabled = FALSE
    /\ route = 0
    /\ rot = NoRotate
    /\ forw = NoForw
    /\ btn = BtnInit
    /\ hist = NoHist

InCall == sdPc \in {"t0", "while", "check", "delay"}

\* The labels of Rotate, of Forw and of the final pause of loop()
RotateLabels ==
    {"R_entry", "R_init", "R_kick", "R_settle", "R_loop", "R_sample", "R_wait",
     "R_nearKick", "R_nearHold", "R_micro", "R_microSample", "R_microKick",
     "R_microHold", "R_microPause"}

ForwLabels ==
    {"F_entry", "F_pre", "F_warm", "F_warmOn", "F_warmOnWait", "F_warmOffWait",
     "F_go", "F_while", "F_bodyWait"}

PauseLabels == {"P_wait"}

InRotate == pc \in RotateLabels

InStep == pc \in RotateLabels \cup ForwLabels \cup PauseLabels

isrStop_motors_stop == StopAndDisable

\* What isrStop does to the motors: it has no Motor() or enableMotors() call
isrStop_motors == MotorState

\* isrStop: the falling edge of the STOP button, at any point of the main cycle
isrStop ==
    /\ IF Elapsed(millis, isrLast) > DEBOUNCE_MS
       THEN /\ stopReq' = TRUE
            /\ isrLast' = millis
            /\ sdFlagSeen' = (sdFlagSeen \/ InCall)
            /\ sdSetAt' = IF InCall /\ sdSetAt = -1 /\ ~stopReq THEN millis ELSE sdSetAt
            /\ hist' = [hist EXCEPT !.isr = @ \/ InRotate,
                                    !.isrSince = TRUE,
                                    !.stops = Min(@ + 1, MaxStops),
                                    !.stopInStep = @ \/ InStep]
       ELSE UNCHANGED <<stopReq, isrLast, sdFlagSeen, sdSetAt, hist>>
    /\ SetMotor(isrStop_motors)
    /\ UNCHANGED <<millis, sdPc, sdMs, sdT0, sdLeft, sdRet>>
    /\ UNCHANGED <<pc, runEnabled, route, rot, forw, btn, sensor, deadline>>
    /\ UNCHANGED <<arduinoVars, norm>>

\* The caller commands the motors before it waits: Motor(Forward, 250) or Motor(Stop, 0)
CallMotor ==
    /\ sdPc \in {"idle", "done"}
    /\ \E c \in {<<Forward, 250>>, <<Stop, 0>>} :
           /\ MotorState # Motor(c[1], c[2])
           /\ SetMotor(Motor(c[1], c[2]))
    /\ UNCHANGED <<millis, stopReq, isrLast, sdVars, sketchVars>>
    /\ UNCHANGED <<arduinoVars, norm>>

\* Entering smartDelay(ms)
smartDelay_call(ms) ==
    /\ sdMs' = ms
    /\ sdPc' = "t0"
    /\ sdT0' = 0
    /\ sdLeft' = 0
    /\ sdRet' = FALSE
    /\ sdFlagSeen' = FALSE
    /\ sdSetAt' = -1

\* The caller enters smartDelay(ms); every call in the sketch asks for a positive wait
CallSmartDelay ==
    /\ sdPc \in {"idle", "done"}
    /\ millis < deadline
    /\ \E ms \in 1..MaxDelay : smartDelay_call(ms)
    /\ UNCHANGED <<millis, stopReq, isrLast, motorVars, sketchVars>>
    /\ UNCHANGED <<arduinoVars, norm>>

\* unsigned long t0 = millis();
sd_t0 ==
    /\ sdPc = "t0"
    /\ sdT0' = millis
    /\ sdPc' = "while"
    /\ UNCHANGED <<millis, stopReq, isrLast, motorVars, sdMs,
                   sdLeft, sdRet, sdFlagSeen, sdSetAt, sketchVars>>
    /\ UNCHANGED <<arduinoVars, norm>>

\* while (millis() - t0 < ms) ... return true;
sd_while ==
    /\ sdPc = "while"
    /\ IF Elapsed(millis, sdT0) < sdMs
       THEN sdPc' = "check" /\ UNCHANGED sdRet
       ELSE sdPc' = "done" /\ sdRet' = TRUE
    /\ UNCHANGED <<millis, stopReq, isrLast, motorVars, sdMs,
                   sdT0, sdLeft, sdFlagSeen, sdSetAt, sketchVars>>
    /\ UNCHANGED <<arduinoVars, norm>>

\* shouldStopNow leaving the motors as they are
shouldStopNow_motors_keep(flag) == MotorState

\* What shouldStopNow does to the motors, stopReq being flag
shouldStopNow_motors(flag) == IF flag THEN StopAndDisable ELSE MotorState

\* if (shouldStopNow()) return false;  shouldStopNow stops and disables the
\* motors when it finds stopReq set
sd_check ==
    /\ sdPc = "check"
    /\ SetMotor(shouldStopNow_motors(stopReq))
    /\ IF stopReq
       THEN /\ sdPc' = "done"
            /\ sdRet' = FALSE
            /\ UNCHANGED sdLeft
       ELSE /\ sdPc' = "delay"
            /\ sdLeft' = SLICE_MS
            /\ UNCHANGED sdRet
    /\ UNCHANGED <<millis, stopReq, isrLast, sdMs, sdT0, sdFlagSeen, sdSetAt,
                   sketchVars>>
    /\ UNCHANGED <<arduinoVars, norm>>

\* delay(2): one millisecond of it passes
sd_delay ==
    /\ sdPc = "delay"
    /\ millis < deadline
    /\ millis' = (millis + 1) % ClockMod
    /\ sdLeft' = sdLeft - 1
    /\ sdPc' = IF sdLeft = 1 THEN "while" ELSE "delay"
    /\ UNCHANGED <<stopReq, isrLast, motorVars, sdMs, sdT0,
                   sdRet, sdFlagSeen, sdSetAt, sketchVars>>
    /\ UNCHANGED <<arduinoVars, norm>>

\* waitForStartAfterStop's Motor(Stop, 0); enableMotors(false); stopReq = false;
\* by the caller after a return
Acknowledge ==
    /\ sdPc = "done"
    /\ stopReq
    /\ SetMotor(StopAndDisable)
    /\ stopReq' = FALSE
    /\ UNCHANGED <<millis, isrLast, sdVars, sketchVars>>
    /\ UNCHANGED <<arduinoVars, norm>>

NextDelay ==
    \/ isrStop
    \/ CallMotor
    \/ CallSmartDelay
    \/ sd_t0
    \/ sd_while
    \/ sd_check
    \/ sd_delay
    \/ Acknowledge

(* Robot_r.ino: Rotate.  Angles are in hundredths of a degree. *)

Deg(x) == 100 * x

K_TURN_R == 102      \* 1.02, in hundredths
K_TURN_L == 102
ROT_FAST_PWM == 200
ROT_MID_PWM == 185
ROT_FINE_PWM == 180
MIN_ROT_PWM == 175
ANGLE_TOL == Deg(2)
STABLE_CNT == 10
TIMEOUT_MS == 9000
OVERSHOOT_DEG == Deg(6)
MICRO_STEPS == 3
MICRO_KICK_MS == 8
MICRO_HOLD_MS == 20
MICRO_PAUSE_MS == 25
NEAR_KICK_MS == 12
NEAR_HOLD_MS == 40
NEAR_PAUSE_MS == 35
MID_SLICE_MS == 12   \* the smartDelay(12) of the mid zone
FAR_SLICE_MS == 10   \* the smartDelay(10) of the far zone
KICK_MS == 60        \* the smartDelay(60) of the startup kick
SETTLE_MS == 50      \* the smartDelay(50) after the startup kick
TOL_PAUSE_MS == 25   \* the smartDelay(25) between in-tolerance samples

MIN_PWM == IF MIN_ROT_PWM > 160 THEN MIN_ROT_PWM ELSE 160
FINE_PWM == IF ROT_FINE_PWM > MIN_PWM THEN ROT_FINE_PWM ELSE MIN_PWM

Abs(x) == IF x < 0 THEN -x ELSE x

RECURSIVE norm180(_)
norm180(a) ==
    IF a > Deg(180) THEN norm180(a - Deg(360))
    ELSE IF a < -Deg(180) THEN norm180(a + Deg(360))
    ELSE a

\* norm180 not called yet
NoNorm == [a |-> 0, r |-> 0, done |-> FALSE]

\* r = norm180(a), called once on an angle of the sketch
Call_norm180 ==
    /\ ~norm.done
    /\ norm' = [norm EXCEPT !.r = norm180(norm.a), !.done = TRUE]
    /\ UNCHANGED <<millis, stopReq, isrLast, motorVars, sdVars, sketchVars>>
    /\ UNCHANGED arduinoVars

\* float targetAngle = startAngle - (phi * k);
targetAngle(startAngle, phi) ==
    startAngle - (phi * (IF phi > 0 THEN K_TURN_R ELSE K_TURN_L)) \div 100

cmdMain(phi) == IF phi > 0 THEN RotateRight ELSE RotateLeft
cmdOpp(phi) == IF phi > 0 THEN RotateLeft ELSE RotateRight

\* stableCnt >= STABLE, taken one sample late
Converged_late(cnt) == cnt > STABLE_CNT

\* if (stableCnt >= STABLE) return true;
Converged(cnt) == cnt >= STABLE_CNT

\* The counter left as it is by a sample outside tolerance
stableCnt_miss_keep(cnt) == cnt

\* } else { stableCnt = 0; }
stableCnt_miss(cnt) == 0

\* The zones with their upper limits included
Zone_inclusive(ae) ==
    IF ae <= Deg(6) THEN "micro"
    ELSE IF ae <= Deg(10) THEN "near"
    ELSE IF ae <= Deg(25) THEN "mid"
    ELSE "far"

\* if (ae < 10.0) { if (ae < 6.0) {..micro..} ..near.. }  if (ae < 25.0) {..mid..}
\* ..far..
Zone(ae) ==
    IF ae < Deg(10)
    THEN IF ae < Deg(6) THEN "micro" ELSE "near"
    ELSE IF ae < Deg(25) THEN "mid"
    ELSE "far"

TimedOut_never(elapsed) == FALSE

\* if (millis() - t0 > TIMEOUT_MS) {
TimedOut(elapsed) == elapsed > TIMEOUT_MS

\* if (!overshot && (sign != sign0) && (ae > OVERSHOOT_DEG)) overshot = true;
Overshot(overshot, sign, sign0, ae) ==
    overshot \/ (sign # sign0 /\ ae > OVERSHOOT_DEG)

\* cmd = overshot ? cmdOpp : cmdMain;
cmd(r) == IF r.overshot THEN cmdOpp(r.phi) ELSE cmdMain(r.phi)

\* The micro zone's direction without the overshoot latch
cmd2_noLatch(r, err2) == IF err2 >= 0 THEN cmdMain(r.phi) ELSE cmdOpp(r.phi)

\* int cmd2 = (err2 >= 0) ? cmdMain : cmdOpp;  if (overshot) cmd2 = cmdOpp;
cmd2(r, err2) ==
    IF r.overshot THEN cmdOpp(r.phi)
    ELSE IF err2 >= 0 THEN cmdMain(r.phi) ELSE cmdOpp(r.phi)

\* The timeout leaving the motors as they are
timeout_motors_keep == MotorState

\* Motor(Stop, 0) of the timeout exit
timeout_motors == Motor(Stop, 0)

\* A reading of the heading the call started from: the robot has not turned
Still == 99999

\* The errors norm180(targetAngle - z) the readings are drawn from: inside
\* tolerance, in the micro, near and mid zones, and far (the start heading)
Errs == {0, Deg(4), -Deg(8), Deg(15), Still}

\* Longer runs of readings: a miss between readings inside tolerance, the last
\* on the edge of tolerance; the target crossed by more than OVERSHOOT_DEG, in
\* either sense, and the zones entered after it; a micro pulse that crosses the
\* target; readings a full turn away; readings on the limits of the zones
LongScripts ==
    {<<Still, 0, Deg(15), ANGLE_TOL>>,
     <<Still, Deg(8), Deg(4)>>,
     <<Still, -Deg(8), -Deg(4)>>,
     <<Still, Deg(8), Deg(15), Deg(30)>>,
     <<Still, -Deg(8), -Deg(15), -Deg(30)>>,
     <<Deg(4), Deg(4), Deg(4), -Deg(4)>>,
     <<Deg(360), -Deg(364)>>,
     <<Deg(25), Deg(25), Deg(10), Deg(6)>>}

\* What the sensor is made to show while the route runs: readings inside
\* tolerance, or the near and micro zones before them
SketchScripts == {<<0>>, <<-Deg(8), -Deg(8), Deg(4), Deg(4), Deg(4), 0>>}

\* What the sensor is made to show during one call of Rotate
Scripts == {<<a>> : a \in Errs} \cup {<<a, b>> : a, b \in Errs} \cup LongScripts

\* The heading the invocation started from
startAngleOf(r) ==
    r.target + (r.phi * (IF r.phi > 0 THEN K_TURN_R ELSE K_TURN_L)) \div 100

\* mpu.getAngleZ() after mpu.update()
mpu_getAngleZ(r) ==
    IF Head(sensor) = Still THEN startAngleOf(r) ELSE r.target - Head(sensor)

\* The readings left after mpu.update(), if sampled
mpu_update(sampled) ==
    IF sampled /\ Len(sensor) > 1 THEN Tail(sensor) ELSE sensor

\* mpu.getAngleZ() at the call
StartHeadings == {0}

\* The angles Rotate is called with
Phis == {Deg(90), -Deg(90), Deg(1)}

\* smartDelay's locals once its result is consumed
sd_reset ==
    /\ sdPc' = "idle"
    /\ sdMs' = 0
    /\ sdT0' = 0
    /\ sdLeft' = 0
    /\ sdRet' = FALSE
    /\ sdFlagSeen' = FALSE
    /\ sdSetAt' = -1

\* A step of the main program: it goes to label p, leaves the motors as m and,
\* if d > 0, enters smartDelay(d)
Prog(p, m, d) ==
    /\ pc' = p
    /\ SetMotor(m)
    /\ IF d > 0 THEN smartDelay_call(d) ELSE sd_reset
    /\ UNCHANGED <<millis, stopReq, isrLast, deadline>>
    /\ UNCHANGED <<arduinoVars, norm>>

\* smartDelay has returned to the main program
Returned == sdPc = "done"

\* What a heading sample adds to the history of the invocation
SampleHist(h, err, main) ==
    [h EXCEPT !.everTol = @ \/ Abs(err) <= ANGLE_TOL,
              !.allTol = @ /\ Abs(err) <= ANGLE_TOL,
              !.tolRun = IF ~main THEN @
                         ELSE IF Abs(err) <= ANGLE_TOL THEN Min(@ + 1, STABLE_CNT)
                         ELSE 0,
              !.mainSamples = IF ~(h.allTol /\ Abs(err) <= ANGLE_TOL) THEN 0
                              ELSE IF main THEN Min(@ + 1, STABLE_CNT + 1)
                              ELSE @]

\* A step of Rotate
RotStep(p, m, d, r, h) ==
    /\ Prog(p, m, d)
    /\ rot' = r
    /\ hist' = h
    /\ sensor' = mpu_update(FALSE)
    /\ UNCHANGED <<runEnabled, route, forw, btn>>

\* A step of Rotate that has sampled the heading
RotSample(p, m, d, r, h) ==
    /\ Prog(p, m, d)
    /\ rot' = r
    /\ hist' = h
    /\ sensor' = mpu_update(TRUE)
    /\ UNCHANGED <<runEnabled, route, forw, btn>>

\* Rotate's locals without those of the micro zone
OutOfMicro(r) == [r EXCEPT !.i = 0, !.cmd2 = Stop, !.err2pos = TRUE]

\* return false; after shouldStopNow or smartDelay has found stopReq set
R_return(m, ret) ==
    RotStep("R_done", m, 0, [OutOfMicro(rot) EXCEPT !.ret = ret], hist)

\* Rotate(phi) is entered
Rotate_call(phi) ==
    /\ pc' = "R_entry"
    /\ rot' = [NoRotate EXCEPT !.phi = phi]
    /\ hist' = [hist EXCEPT !.isr = FALSE, !.tolRun = 0, !.crossed = FALSE,
                            !.everTol = FALSE, !.allTol = TRUE, !.mainSamples = 0]

\* if (shouldStopNow()) return false;
R_entry ==
    /\ pc = "R_entry"
    /\ IF stopReq
       THEN R_return(shouldStopNow_motors(TRUE), FALSE)
       ELSE RotStep("R_init", MotorState, 0, rot, hist)

\* startAngle, targetAngle, t0, the startup kick: Motor(cmdMain, FAST_PWM);
\* smartDelay(60)
R_init ==
    /\ pc = "R_init"
    /\ \E z \in StartHeadings :
          LET t == targetAngle(z, rot.phi) IN
          RotStep("R_kick", Motor(cmdMain(rot.phi), ROT_FAST_PWM), KICK_MS,
                  [rot EXCEPT !.target = t, !.t0 = millis],
                  [hist EXCEPT !.allTol = Abs(norm180(t - z)) <= ANGLE_TOL,
                               !.everTol = Abs(norm180(t - z)) <= ANGLE_TOL])

\* if (!smartDelay(60)) { Motor(Stop, 0); return false; }  Motor(Stop, 0);
\* smartDelay(50)
R_kick ==
    /\ pc = "R_kick"
    /\ Returned
    /\ IF ~sdRet
       THEN R_return(Motor(Stop, 0), FALSE)
       ELSE RotStep("R_settle", Motor(Stop, 0), SETTLE_MS, rot, hist)

\* if (!smartDelay(50)) return false;  err0, sign0
R_settle ==
    /\ pc = "R_settle"
    /\ Returned
    /\ IF ~sdRet
       THEN R_return(MotorState, FALSE)
       ELSE LET z == mpu_getAngleZ(rot) IN
               LET err0 == norm180(rot.target - z) IN
               RotSample("R_loop", MotorState, 0,
                       [rot EXCEPT !.sign0 = IF err0 >= 0 THEN 1 ELSE -1],
                       SampleHist(hist, err0, FALSE))

\* while (true) { if (shouldStopNow()) return false;
R_loop ==
    /\ pc = "R_loop"
    /\ IF stopReq
       THEN R_return(shouldStopNow_motors(TRUE), FALSE)
       ELSE RotStep("R_sample", MotorState, 0, rot, hist)

\* The sample of the main loop, the timeout, the tolerance test, the overshoot
\* latch and the command of the near, mid or far zone
R_sample ==
    /\ pc = "R_sample"
    /\ LET z == mpu_getAngleZ(rot) IN
          LET err == norm180(rot.target - z)
              ae == Abs(err)
              sign == IF err >= 0 THEN 1 ELSE -1
              h == SampleHist(hist, err, TRUE)
              cnt == rot.stableCnt + 1
              r == [rot EXCEPT !.stableCnt = stableCnt_miss(@),
                               !.overshot = Overshot(@, sign, rot.sign0, ae)]
              hh == [h EXCEPT !.crossed =
                                  @ \/ (sign # rot.sign0 /\ ae > OVERSHOOT_DEG)]
          IN  IF TimedOut(Elapsed(millis, rot.t0))
              THEN RotSample("R_done", timeout_motors, 0,
                           [rot EXCEPT !.ret = FALSE], h)
              ELSE IF ae <= ANGLE_TOL
              THEN IF Converged(cnt)
                   THEN RotSample("R_done", Motor(Stop, 0), 0,
                                [rot EXCEPT !.stableCnt = cnt, !.ret = TRUE], h)
                   ELSE RotSample("R_wait", Motor(Stop, 0), TOL_PAUSE_MS,
                                [rot EXCEPT !.stableCnt = cnt], h)
              ELSE IF Zone(ae) = "micro"
              THEN RotSample("R_micro", MotorState, 0, r, hh)
              ELSE IF Zone(ae) = "near"
              THEN RotSample("R_nearKick", Motor(cmd(r), FINE_PWM), NEAR_KICK_MS, r, hh)
              ELSE IF Zone(ae) = "mid"
              THEN RotSample("R_wait", Motor(cmd(r), ROT_MID_PWM), MID_SLICE_MS, r, hh)
              ELSE RotSample("R_wait", Motor(cmd(r), ROT_FAST_PWM), FAR_SLICE_MS, r, hh)

\* if (!smartDelay(..)) return false;  continue;
R_wait ==
    /\ pc = "R_wait"
    /\ Returned
    /\ IF ~sdRet
       THEN R_return(MotorState, FALSE)
       ELSE RotStep("R_loop", MotorState, 0, rot, hist)

\* Near zone: if (!smartDelay(NEAR_KICK_MS)) return false;  Motor(cmd, MIN_PWM);
R_nearKick ==
    /\ pc = "R_nearKick"
    /\ Returned
    /\ IF ~sdRet
       THEN R_return(MotorState, FALSE)
       ELSE RotStep("R_nearHold", Motor(cmd(rot), MIN_PWM), NEAR_HOLD_MS, rot, hist)

\* if (!smartDelay(NEAR_HOLD_MS)) return false;  Motor(Stop, 0);
R_nearHold ==
    /\ pc = "R_nearHold"
    /\ Returned
    /\ IF ~sdRet
       THEN R_return(MotorState, FALSE)
       ELSE RotStep("R_wait", Motor(Stop, 0), NEAR_PAUSE_MS, rot, hist)

\* for (int i = 0; i < MICRO_STEPS; i++) { if (shouldStopNow()) return false;
R_micro ==
    /\ pc = "R_micro"
    /\ IF rot.i >= MICRO_STEPS
       THEN RotStep("R_loop", MotorState, 0, OutOfMicro(rot), hist)
       ELSE IF stopReq
       THEN R_return(shouldStopNow_motors(TRUE), FALSE)
       ELSE RotStep("R_microSample", MotorState, 0, rot, hist)

\* err2; if (ae2 <= TOL) break;  cmd2;  Motor(cmd2, FINE_PWM);
R_microSample ==
    /\ pc = "R_microSample"
    /\ LET z == mpu_getAngleZ(rot) IN
          LET err2 == norm180(rot.target - z)
              h == SampleHist(hist, err2, FALSE)
          IN  IF Abs(err2) <= ANGLE_TOL
              THEN RotSample("R_loop", MotorState, 0, OutOfMicro(rot), h)
              ELSE RotSample("R_microKick", Motor(cmd2(rot, err2), FINE_PWM),
                           MICRO_KICK_MS,
                           [rot EXCEPT !.cmd2 = cmd2(rot, err2),
                                       !.err2pos = (err2 >= 0)], h)

\* if (!smartDelay(MICRO_KICK_MS)) return false;  Motor(cmd2, MIN_PWM);
R_microKick ==
    /\ pc = "R_microKick"
    /\ Returned
    /\ IF ~sdRet
       THEN R_return(MotorState, FALSE)
       ELSE RotStep("R_microHold", Motor(rot.cmd2, MIN_PWM), MICRO_HOLD_MS, rot, hist)

\* if (!smartDelay(MICRO_HOLD_MS)) return false;  Motor(Stop, 0);
R_microHold ==
    /\ pc = "R_microHold"
    /\ Returned
    /\ IF ~sdRet
       THEN R_return(MotorState, FALSE)
       ELSE RotStep("R_microPause", Motor(Stop, 0), MICRO_PAUSE_MS, rot, hist)

\* if (!smartDelay(MICRO_PAUSE_MS)) return false;  errAfter;
\* if ((errAfter >= 0) != (err2 >= 0)) break;
R_microPause ==
    /\ pc = "R_microPause"
    /\ Returned
    /\ IF ~sdRet
       THEN R_return(MotorState, FALSE)
       ELSE LET z == mpu_getAngleZ(rot) IN
               LET errAfter == norm180(rot.target - z)
                   h == SampleHist(hist, errAfter, FALSE)
               IN  IF (errAfter >= 0) # rot.err2pos
                   THEN RotSample("R_loop", MotorState, 0, OutOfMicro(rot), h)
                   ELSE RotSample("R_micro", MotorState, 0,
                                [rot EXCEPT !.i = @ + 1], h)

\* Rotate, one step of it
RotateStep ==
    \/ R_entry
    \/ R_init
    \/ R_kick
    \/ R_settle
    \/ R_loop
    \/ R_sample
    \/ R_wait
    \/ R_nearKick
    \/ R_nearHold
    \/ R_micro
    \/ R_microSample
    \/ R_microKick
    \/ R_microHold
    \/ R_microPause

\* smartDelay, one step of it
DelayStep == sd_t0 \/ sd_while \/ sd_check \/ sd_delay

\* Rotate(phi) called once setup() has returned
CallRotate ==
    /\ pc = "L_top"
    /\ \E phi \in Phis : Rotate_call(phi)
    /\ UNCHANGED <<millis, stopReq, isrLast, motorVars, sdVars, deadline>>
    /\ UNCHANGED <<runEnabled, route, forw, btn, sensor>>
    /\ UNCHANGED <<arduinoVars, norm>>

NextRotate == CallRotate \/ RotateStep \/ DelayStep \/ isrStop

----------------------------------------------------------------------------
(* Robot_r.ino: the START button, Forw, waitForStartAfterStop and loop() *)

START_DEBOUNCE_MS == 40   \* pollStartButton's debounce
POLL_MS == 10             \* the delay(10) after pollStartButton()
FORW_MS == 2000           \* loop()'s Forw(2000)
FORW_PRE_MS == 200        \* Forw's smartDelay(200)
WARM_PULSES == 3
WARM_MS == 30
FORW_SLICE_MS == 10       \* the smartDelay(10) of Forw's loop
PAUSE_MS == 5000          \* loop()'s smartDelay(5000)
ROUTE_LEN == 9            \* the statements of the route: Forw, Rotate four times, the pause

\* pollStartButton(), millis() reading t: the statics it leaves and whether it
\* has seen a press event
pollStartButton(b, t) ==
    LET r == b.pin
        b1 == IF r # b.lastRead THEN [b EXCEPT !.tLast = t, !.lastRead = r] ELSE b
    IN  IF Elapsed(t, b1.tLast) > START_DEBOUNCE_MS /\ r # b1.stable
        THEN [btn |-> [b1 EXCEPT !.stable = r], event |-> (r = "LOW")]
        ELSE [btn |-> b1, event |-> FALSE]

\* What a poll adds to the history: a press event opens a new run
PollHist(h, event) ==
    IF event
    THEN [h EXCEPT !.pressed = TRUE, !.isrSince = FALSE, !.stopInStep = FALSE]
    ELSE h

\* pollStartButton(); delay(10);
PollAndDelay ==
    /\ millis + POLL_MS <= deadline
    /\ LET p == pollStartButton(btn, millis) IN
          /\ btn' = p.btn
          /\ runEnabled' = (runEnabled \/ p.event)
          /\ hist' = PollHist(hist, p.event)
    /\ millis' = (millis + POLL_MS) % ClockMod
    /\ UNCHANGED <<pc, stopReq, isrLast, motorVars, sdVars, route, rot, forw,
                   sensor, deadline>>
    /\ UNCHANGED <<arduinoVars, norm>>

\* The history of a Rotate invocation, forgotten
RotHistReset(h) ==
    [h EXCEPT !.isr = FALSE, !.tolRun = 0, !.crossed = FALSE,
              !.everTol = FALSE, !.allTol = TRUE, !.mainSamples = 0]

\* A step of loop() or Forw that leaves Rotate's locals and the button alone
MainStep(p, m, d, n, f, h) ==
    /\ Prog(p, m, d)
    /\ route' = n
    /\ forw' = f
    /\ hist' = h
    /\ rot' = NoRotate
    /\ UNCHANGED <<runEnabled, btn, sensor>>

\* waitForStartAfterStop() is entered
waitForStartAfterStop_call == MainStep("W_entry", MotorState, 0, 0, NoForw, RotHistReset(hist))

\* The statement n of the route is entered: Forw(2000), Rotate(90) or
\* smartDelay(5000)
RouteCall(n) ==
    IF n = ROUTE_LEN
    THEN MainStep("P_wait", MotorState, PAUSE_MS, n, NoForw, RotHistReset(hist))
    ELSE IF n % 2 = 1
    THEN MainStep("F_entry", MotorState, 0, n, NoForw,
                  [RotHistReset(hist) EXCEPT !.pressed = FALSE])
    ELSE /\ Prog("R_entry", MotorState, 0)
         /\ route' = n
         /\ rot' = [NoRotate EXCEPT !.phi = Deg(90)]
         /\ hist' = RotHistReset(hist)
         /\ UNCHANGED <<runEnabled, forw, btn, sensor>>

\* loop(): if (!runEnabled) { pollStartButton(); delay(10); return; }
\* if (stopReq) { waitForStartAfterStop(); return; }  Forw(2000);
L_top ==
    /\ pc = "L_top"
    /\ IF ~runEnabled THEN PollAndDelay
       ELSE IF stopReq THEN waitForStartAfterStop_call
       ELSE RouteCall(1)

\* if (stopReq) { waitForStartAfterStop(); return; } and the next statement of
\* the route
L_after ==
    /\ pc \in {"F_done", "R_done"}
    /\ IF stopReq THEN waitForStartAfterStop_call ELSE RouteCall(route + 1)

\* if (!smartDelay(5000)) { waitForStartAfterStop(); return; }
P_wait ==
    /\ pc = "P_wait"
    /\ Returned
    /\ IF ~sdRet THEN waitForStartAfterStop_call
       ELSE MainStep("L_top", MotorState, 0, 0, NoForw, hist)

\* waitForStartAfterStop: Motor(Stop, 0); enableMotors(false);
\* stopReq = false; runEnabled = false;
W_runEnabled_keep == runEnabled

\* runEnabled = false;
W_runEnabled == FALSE

W_entry ==
    /\ pc = "W_entry"
    /\ pc' = "W_poll"
    /\ SetMotor(StopAndDisable)
    /\ stopReq' = FALSE
    /\ runEnabled' = W_runEnabled
    /\ UNCHANGED <<millis, isrLast, sdVars, route, rot, forw, btn, sensor, hist,
                   deadline>>
    /\ UNCHANGED <<arduinoVars, norm>>

\* while (!runEnabled) { pollStartButton(); delay(10); }  and the return to
\* loop(), which returns
W_poll ==
    /\ pc = "W_poll"
    /\ IF runEnabled
       THEN MainStep("L_top", MotorState, 0, 0, NoForw, hist)
       ELSE PollAndDelay

\* A step of Forw
ForwStep(p, m, d, f) == MainStep(p, m, d, route, f, hist)

\* return; from Forw
F_return(m) == ForwStep("F_done", m, 0, NoForw)

\* if (shouldStopNow()) return;  smartDelay(200)
F_entry ==
    /\ pc = "F_entry"
    /\ IF stopReq THEN F_return(shouldStopNow_motors(TRUE))
       ELSE ForwStep("F_pre", MotorState, FORW_PRE_MS, forw)

\* if (!smartDelay(200)) return;  start = millis();
F_pre ==
    /\ pc = "F_pre"
    /\ Returned
    /\ IF ~sdRet THEN F_return(MotorState)
       ELSE ForwStep("F_warm", MotorState, 0, [start |-> millis, i |-> 0])

\* for (int i = 0; i < 3; i++) { if (shouldStopNow()) return;  and, after the
\* loop, if (shouldStopNow()) return;
F_warm ==
    /\ pc = "F_warm"
    /\ IF stopReq THEN F_return(shouldStopNow_motors(TRUE))
       ELSE IF forw.i < WARM_PULSES THEN ForwStep("F_warmOn", MotorState, 0, forw)
       ELSE ForwStep("F_go", MotorState, 0, [forw EXCEPT !.i = 0])

\* Motor(Forward, 210); smartDelay(30)
F_warmOn ==
    /\ pc = "F_warmOn"
    /\ ForwStep("F_warmOnWait", Motor(Forward, 210), WARM_MS, forw)

\* if (!smartDelay(30)) return;  Motor(Stop, 0); smartDelay(30)
F_warmOnWait ==
    /\ pc = "F_warmOnWait"
    /\ Returned
    /\ IF ~sdRet THEN F_return(MotorState)
       ELSE ForwStep("F_warmOffWait", Motor(Stop, 0), WARM_MS, forw)

\* if (!smartDelay(30)) return;  i++
F_warmOffWait ==
    /\ pc = "F_warmOffWait"
    /\ Returned
    /\ IF ~sdRet THEN F_return(MotorState)
       ELSE ForwStep("F_warm", MotorState, 0, [forw EXCEPT !.i = @ + 1])

\* Motor(Forward, 250);
F_go ==
    /\ pc = "F_go"
    /\ ForwStep("F_while", Motor(Forward, 250), 0, forw)

\* while (millis() - start < time_ms) { if (shouldStopNow()) return;
\* mpu.update(); smartDelay(10) ... }  Motor(Stop, 0);
F_while ==
    /\ pc = "F_while"
    /\ IF Elapsed(millis, forw.start) < FORW_MS
       THEN IF stopReq THEN F_return(shouldStopNow_motors(TRUE))
            ELSE ForwStep("F_bodyWait", MotorState, FORW_SLICE_MS, forw)
       ELSE F_return(Motor(Stop, 0))

\* if (!smartDelay(10)) return;
F_bodyWait ==
    /\ pc = "F_bodyWait"
    /\ Returned
    /\ IF ~sdRet THEN F_return(MotorState)
       ELSE ForwStep("F_while", MotorState, 0, forw)

\* Forw, one step of it
ForwRun ==
    \/ F_entry
    \/ F_pre
    \/ F_warm
    \/ F_warmOn
    \/ F_warmOnWait
    \/ F_warmOffWait
    \/ F_go
    \/ F_while
    \/ F_bodyWait

\* loop() and waitForStartAfterStop, one step of them
LoopRun == L_top \/ L_after \/ P_wait \/ W_entry \/ W_poll

\* The main program of Robot_r.ino, one step of it
MainRun == LoopRun \/ ForwRun \/ RotateStep \/ DelayStep

\* The operator presses START or lets it go
StartButton ==
    /\ hist.toggles < MaxToggles
    /\ btn' = [btn EXCEPT !.pin = IF @ = "HIGH" THEN "LOW" ELSE "HIGH"]
    /\ hist' = [hist EXCEPT !.toggles = @ + 1]
    /\ UNCHANGED <<millis, stopReq, isrLast, motorVars, sdVars, pc, runEnabled,
                   route, rot, forw, sensor, deadline>>
    /\ UNCHANGED <<arduinoVars, norm>>

\* The operator presses STOP, at least one slice before the explored run ends
StopButton ==
    /\ hist.stops < MaxStops
    /\ millis + SLICE_MS <= deadline
    /\ isrStop

NextSketch == MainRun \/ StartButton \/ StopButton


----------------------------------------------------------------------------
(* Initial state: the globals of Arduino.ino as constructed *)

ArduinoInit(catalogs) ==
    /\ entries \in catalogs
    /\ now = StartTime
    /\ last = FALSE
    /\ enabled = TRUE
    /\ file = NULL
    /\ current = NULL
    /\ running = FALSE
    /\ finishedAll = FALSE
    /\ cmds = <<>>
    /\ files = <<>>
    /\ fsActive = NULL
    /\ motion = "stop"
    /\ paint = FALSE
    /\ acts = <<>>
    /\ reports = <<>>
    /\ freed = 0
    /\ op = "init"
    /\ startedLog = <<>>
    /\ cycles = 0
    /\ restarted = FALSE
    /\ ticks = 0

Init == ArduinoInit(Catalogs) /\ RobotInit({SetupMs}, 0, {<<0>>}) /\ norm = NoNorm

----------------------------------------------------------------------------
(* Actions *)

\* One loop() iteration: the clock has advanced by dt, the button reads cur
Loop(k, cur, cap) ==
    /\ ticks + k <= cap
    /\ Commit(ProgramController_update(
                 Fresh([World EXCEPT !.now = (now + k * CyclePeriod) % ClockMod,
                                    !.advanced = (k > 0)]), cur))
    /\ op' = "loop"
    /\ ticks' = ticks + k
    /\ UNCHANGED robotVars

\* A loop() iteration; the clock has advanced by no or one period
LoopCycle == \E k \in 0..1, cur \in BOOLEAN : Loop(k, cur, MaxTicks)

\* A loop() iteration in which the clock advanced by at least one period
AdvancingCycle == \E k \in 1..2, cur \in BOOLEAN : Loop(k, cur, 2 * MaxCycles)

\* RunControl::setEnabled, called between two iterations
SetEnabled ==
    /\ Commit(Fresh([World EXCEPT !.enabled = ~enabled]))
    /\ op' = "setEnabled"
    /\ UNCHANGED <<ticks, robotVars>>

\* ProgramRunner::stop, called between two iterations
Cancel ==
    /\ Commit(ProgramRunner_stop(Fresh(World)))
    /\ op' = "stop"
    /\ UNCHANGED <<ticks, robotVars>>

\* ProgramRunner::start on the file the catalog gives for a name, called
\* between two iterations
CallStart ==
    \E name \in {"square.txt", "missing.txt"} :
        LET o == MemoryFileSystem_open(Fresh(World), name)
        IN  /\ Commit(ProgramRunner_start(o.w, o.f))
            /\ op' = "start"
            /\ UNCHANGED <<ticks, robotVars>>

Next == LoopCycle \/ SetEnabled \/ Cancel

Spec == Init /\ [][Next]_vars

\* ProgramRunner::update called directly; the clock has advanced by k periods
CallUpdate ==
    \E k \in 0..1 :
        /\ ticks + k <= MaxTicks
        /\ Commit(ProgramRunner_update(
                     Fresh([World EXCEPT !.now = (now + k * CyclePeriod) % ClockMod,
                                        !.advanced = (k > 0)])))
        /\ op' = "update"
        /\ ticks' = ticks + k
        /\ UNCHANGED robotVars

\* ProgramRunner alone, its three methods called in any order
NextRunner == CallUpdate \/ Cancel \/ CallStart

SpecRunner == Init /\ [][NextRunner]_vars

NextAdvancing == AdvancingCycle

SpecAdvancing == Init /\ [][NextAdvancing]_vars

\* smartDelay called again and again, the stop interrupt firing at any point
InitDelay ==
    /\ ArduinoInit({<<Entry("triangle.txt", <<>>)>>})
    /\ RobotInit({SetupMs}, DelayRun, {<<0>>})
    /\ norm = NoNorm

SpecDelay == InitDelay /\ [][NextDelay]_vars

\* Rotate called once after setup(), the stop interrupt firing at any point and
\* the sensor showing any of the headings
InitRotateCall ==
    /\ ArduinoInit({<<Entry("triangle.txt", <<>>)>>})
    /\ RobotInit({SetupMs}, RotateRun, Scripts)
    /\ norm = NoNorm

\* Rotate(90) called as setup() returned, at the top of its loop LATE_MS later:
\* the startup kick (60 + 50 ms) and 888 iterations of the far zone (10 ms
\* each), the robot not having turned and STOP not pressed
LATE_MS == KICK_MS + SETTLE_MS + 888 * FAR_SLICE_MS

RotateLate ==
    /\ millis = SetupMs + LATE_MS
    /\ stopReq = FALSE
    /\ isrLast = 0
    /\ motorDir = Motor(cmdMain(Deg(90)), ROT_FAST_PWM).dir
    /\ motorSpeed = Motor(cmdMain(Deg(90)), ROT_FAST_PWM).speed
    /\ enPin = Motor(cmdMain(Deg(90)), ROT_FAST_PWM).en
    /\ sdPc = "idle"
    /\ sdMs = 0
    /\ sdT0 = 0
    /\ sdLeft = 0
    /\ sdRet = FALSE
    /\ sdFlagSeen = FALSE
    /\ sdSetAt = -1
    /\ pc = "R_loop"
    /\ runEnabled = FALSE
    /\ route = 0
    /\ rot = [NoRotate EXCEPT !.phi = Deg(90),
                              !.target = targetAngle(0, Deg(90)),
                              !.t0 = SetupMs,
                              !.sign0 = -1]
    /\ forw = NoForw
    /\ btn = BtnInit
    /\ hist = [NoHist EXCEPT !.allTol = FALSE]

\* The same call 8990 ms later, the sensor showing any of the runs of readings
\* from then on
InitRotateLate ==
    /\ ArduinoInit({<<Entry("triangle.txt", <<>>)>>})
    /\ RotateLate
    /\ sensor \in Scripts
    /\ deadline = millis + RotateRun
    /\ norm = NoNorm

InitRotate == InitRotateCall \/ InitRotateLate

\* The sketch from the return of setup(), the sensor showing readings inside
\* tolerance
InitSketchBoot ==
    /\ ArduinoInit({<<Entry("triangle.txt", <<>>)>>})
    /\ RobotInit({SetupMs}, SketchRun, SketchScripts)
    /\ norm = NoNorm

\* START pressed as setup() returned and let go later: the sixth poll, 50 ms
\* on, sees the press event, and the next loop() enters the route
START_AT == SetupMs + 6 * POLL_MS

\* Forw(2000) and Rotate(90) from call to return, the sensor showing readings
\* inside tolerance: the slices of smartDelay(25) make it 26 ms
FORW_TIME == FORW_PRE_MS + FORW_MS
ROTATE_TIME == KICK_MS + SETTLE_MS + (STABLE_CNT - 1) * (TOL_PAUSE_MS + 1)
PAUSE_AT == START_AT + 4 * (FORW_TIME + ROTATE_TIME)

\* The route running since START_AT, STOP never pressed
RouteRunning(held) ==
    /\ stopReq = FALSE
    /\ isrLast = 0
    /\ runEnabled = TRUE
    /\ rot = NoRotate
    /\ btn = [pin |-> IF held THEN "LOW" ELSE "HIGH", stable |-> "LOW",
              lastRead |-> "LOW", tLast |-> SetupMs]
    /\ hist = [NoHist EXCEPT !.toggles = IF held THEN 3 ELSE 2]
    /\ sdLeft = 0
    /\ sdRet = FALSE
    /\ sdFlagSeen = FALSE
    /\ sdSetAt = -1

\* 190 ms into the smartDelay(200) of the first Forw
InForwPre ==
    /\ RouteRunning(FALSE)
    /\ millis = START_AT + FORW_PRE_MS - 10
    /\ pc = "F_pre"
    /\ route = 1
    /\ forw = NoForw
    /\ motorDir = Motor(Stop, 0).dir
    /\ motorSpeed = Motor(Stop, 0).speed
    /\ enPin = Motor(Stop, 0).en
    /\ sdPc = "while"
    /\ sdMs = FORW_PRE_MS
    /\ sdT0 = START_AT

\* 1990 ms into the drive of the first Forw, START pressed again and held
InForwLate ==
    /\ RouteRunning(TRUE)
    /\ millis = START_AT + FORW_TIME - 10
    /\ pc = "F_while"
    /\ route = 1
    /\ forw = [start |-> START_AT + FORW_PRE_MS, i |-> 0]
    /\ motorDir = Motor(Forward, 250).dir
    /\ motorSpeed = Motor(Forward, 250).speed
    /\ enPin = Motor(Forward, 250).en
    /\ sdPc = "idle"
    /\ sdMs = 0
    /\ sdT0 = 0

\* 4990 ms into the final pause
InPauseLate ==
    /\ RouteRunning(FALSE)
    /\ millis = PAUSE_AT + PAUSE_MS - 10
    /\ pc = "P_wait"
    /\ route = ROUTE_LEN
    /\ forw = NoForw
    /\ motorDir = Motor(Stop, 0).dir
    /\ motorSpeed = Motor(Stop, 0).speed
    /\ enPin = Motor(Stop, 0).en
    /\ sdPc = "while"
    /\ sdMs = PAUSE_MS
    /\ sdT0 = PAUSE_AT

\* 20 ms into the smartDelay(30) that ends the third warm-up pulse
InForwWarm ==
    /\ RouteRunning(FALSE)
    /\ millis = START_AT + FORW_PRE_MS + (2 * WARM_PULSES - 1) * WARM_MS + 20
    /\ pc = "F_warmOffWait"
    /\ route = 1
    /\ forw = [start |-> START_AT + FORW_PRE_MS, i |-> WARM_PULSES - 1]
    /\ motorDir = Motor(Stop, 0).dir
    /\ motorSpeed = Motor(Stop, 0).speed
    /\ enPin = Motor(Stop, 0).en
    /\ sdPc = "while"
    /\ sdMs = WARM_MS
    /\ sdT0 = START_AT + FORW_PRE_MS + (2 * WARM_PULSES - 1) * WARM_MS

\* Halted for 100 ms: STOP was pressed as the first Forw was entered at
\* START_AT, START let go by then
Halted ==
    /\ millis = START_AT + 10 * POLL_MS
    /\ stopReq = FALSE
    /\ isrLast = START_AT
    /\ runEnabled = FALSE
    /\ rot = NoRotate
    /\ btn = [pin |-> "HIGH", stable |-> "HIGH", lastRead |-> "HIGH", tLast |-> START_AT]
    /\ hist = [NoHist EXCEPT !.isrSince = TRUE, !.stopInStep = TRUE, !.toggles = 2]
    /\ pc = "W_poll"
    /\ route = 0
    /\ forw = NoForw
    /\ motorDir = StopAndDisable.dir
    /\ motorSpeed = StopAndDisable.speed
    /\ enPin = StopAndDisable.en
    /\ sdPc = "idle"
    /\ sdMs = 0
    /\ sdT0 = 0
    /\ sdLeft = 0
    /\ sdRet = FALSE
    /\ sdFlagSeen = FALSE
    /\ sdSetAt = -1

\* The sketch at one of these points of its first run of the route, followed
\* from there
InitSketchRoute ==
    /\ ArduinoInit({<<Entry("triangle.txt", <<>>)>>})
    /\ \/ InForwPre /\ deadline = millis + SketchRun \div 2
       \/ InForwWarm /\ deadline = millis + SketchRun \div 2
       \/ InForwLate /\ deadline = millis + 4 * SketchRun
       \/ InPauseLate /\ deadline = millis + SketchRun \div 2
       \/ Halted /\ deadline = millis + SketchRun
    /\ sensor \in SketchScripts
    /\ norm = NoNorm

InitSketch == InitSketchBoot \/ InitSketchRoute

SpecSketch == InitSketch /\ [][NextSketch]_vars

SpecRotate == InitRotate /\ [][NextRotate]_vars

\* norm180 called on a whole number of degrees
NormAngles == {Deg(d) : d \in -MaxAngle..MaxAngle}

InitNorm ==
    /\ ArduinoInit({<<Entry("triangle.txt", <<>>)>>})
    /\ RobotInit({SetupMs}, 0, {<<0>>})
    /\ norm \in {[NoNorm EXCEPT !.a = a] : a \in NormAngles}

NextNorm == Call_norm180

SpecNorm == InitNorm /\ [][NextNorm]_vars

\* The main program keeps executing: loop() and everything it calls take
\* their next step
SpecSketchFair == SpecSketch /\ WF_vars(MainRun)

\* Rotate and the smartDelay it waits in keep executing
SpecRotateFair == SpecRotate /\ WF_vars(RotateStep \/ DelayStep)

----------------------------------------------------------------------------
(* Vocabulary of the properties *)

\* The engine: ProgramRunner's fields and the objects they point to
Engine(w) ==
    [file |-> w.file, current |-> w.current, running |-> w.running,
     finishedAll |-> w.finishedAll, cmds |-> w.cmds, files |-> w.files,
     fsActive |-> w.fsActive]

Recognised(line) == CommandParser_parse(line) # NoCommand

\* The primitives a sequence of records stands for, the unrecognised ones left out
RECURSIVE Primitives(_)
Primitives(ls) ==
    IF ls = <<>> THEN <<>>
    ELSE LET c == CommandParser_parse(Head(ls))
         IN  IF c = NoCommand THEN Primitives(Tail(ls))
             ELSE <<[kind |-> c.kind, duration |-> c.duration]>> \o Primitives(Tail(ls))

\* A drive or paint command: only the start() of a primitive issues one
DriveIssued(log) == \E i \in 1..Len(log) : log[i] # "stop"

\* This step is a loop() iteration that saw a start edge
EdgeSeen == op' = "loop" /\ last' /\ ~last

\* This step is a loop() iteration that accepted a start edge and began a program
StartAccepted == EdgeSeen /\ enabled /\ Printed(reports', "start")

----------------------------------------------------------------------------
(* C1 *)

\* C1: the primitives started since the program began are exactly those of the
\* recognised records among the records read so far, in program order; the
\* engine is Running while records remain unread; and FinishedAll means every
\* record was read, so an unrecognised record neither stops the run nor is started.
C1_SkipsUnrecognised ==
    /\ file # NULL =>
         /\ file \in DOMAIN files
         /\ startedLog = Primitives(SubSeq(files[file].lines, 1, files[file].idx))
         /\ (files[file].idx < files[file].count => running)
    /\ finishedAll =>
         /\ file # NULL
         /\ files[file].idx = files[file].count
         /\ startedLog = Primitives(files[file].lines)

\* A run that finished a program whose unrecognised record stands between two
\* recognised ones, both of which were started
C1_Witness ==
    /\ finishedAll
    /\ Len(startedLog) = 2
    /\ \E j \in 2..(files[file].count - 1) :
         /\ ~Recognised(files[file].lines[j])
         /\ \E i \in 1..(j - 1) : Recognised(files[file].lines[i])
         /\ \E k \in (j + 1)..files[file].count : Recognised(files[file].lines[k])

----------------------------------------------------------------------------
(* C2 *)

\* The live command objects are the one current points to, or none
AtMostOnePrimitive ==
    /\ Cardinality(DOMAIN cmds) <= 1
    /\ DOMAIN cmds = IF current = NULL THEN {} ELSE {current}

\* The engine after this loop() iteration had the button not been pressed
EngineWithoutEdge ==
    Engine(ProgramController_update(
               Fresh([World EXCEPT !.now = now', !.advanced = (ticks' > ticks)]), FALSE))

\* C2: at most one primitive is live in every state, and a loop() iteration that
\* sees a start edge while the engine is Running leaves the engine (active
\* primitive, program source, read position) as the same iteration without the
\* edge would, starts nothing and reports "already running".
C2_OnePrimitiveNoRestart ==
    /\ [](AtMostOnePrimitive)
    /\ [][(EdgeSeen /\ enabled /\ running) =>
              /\ Printed(reports', "already running")
              /\ ~Printed(reports', "start")
              /\ Engine(World') = EngineWithoutEdge]_vars

\* A start edge arrived while a primitive was active, and the primitive is still active
C2_Witness ==
    /\ op = "loop"
    /\ Printed(reports, "already running")
    /\ current # NULL
    /\ running

----------------------------------------------------------------------------
(* C3 *)

\* C3: a loop() iteration that sees a start edge while run is Disabled reports
\* "blocked" and leaves the engine and the actuators as they were; and a program
\* is started only by an iteration that itself sees an edge while run is Enabled,
\* so the rejected edge starts nothing later.
C3_EdgeWhileDisabled ==
    [][/\ (EdgeSeen /\ ~enabled) =>
              /\ Printed(reports', "blocked")
              /\ Engine(World') = Engine(World)
              /\ acts' = <<>>
       /\ (op' = "loop" /\ Printed(reports', "start")) => (EdgeSeen /\ enabled)
       /\ (op' = "loop" /\ ~running /\ running') => (EdgeSeen /\ enabled)]_vars

\* An edge was rejected while a primitive was active, and the primitive is untouched
C3_Witness ==
    /\ op = "loop"
    /\ Printed(reports, "blocked")
    /\ ~enabled
    /\ last
    /\ current # NULL

----------------------------------------------------------------------------
(* C4 *)

\* C4: "finished" is printed only by the loop() iteration in which the engine
\* goes from not FinishedAll to FinishedAll.
C4_FinishedReportedOnce ==
    [][(op' = "loop" /\ Printed(reports', "finished")) =>
           (~finishedAll /\ finishedAll')]_vars

----------------------------------------------------------------------------
(* C5 *)

CeilDiv(a, b) == (a + b - 1) \div b

Max(a, b) == IF a >= b THEN a ELSE b

\* The bound of the claim: one cycle per record, and duration / period for
\* the primitive of each recognised record
RECURSIVE ClaimedCycles(_)
ClaimedCycles(ls) ==
    IF ls = <<>> THEN 0
    ELSE LET c == CommandParser_parse(Head(ls))
         IN  1 + (IF c = NoCommand THEN 0 ELSE CeilDiv(c.duration, CyclePeriod))
               + ClaimedCycles(Tail(ls))

\* The cycles the engine takes at most: for each record the cycle that reads
\* it, for a recognised record also the cycles that poll its primitive, which
\* are at least one, and a last cycle that finds the source exhausted
RECURSIVE RecordCycles(_)
RecordCycles(ls) ==
    IF ls = <<>> THEN 0
    ELSE LET c == CommandParser_parse(Head(ls))
         IN  1 + (IF c = NoCommand THEN 0
                  ELSE Max(1, CeilDiv(c.duration, CyclePeriod)))
               + RecordCycles(Tail(ls))

EngineCycles(ls) == RecordCycles(ls) + 1

AllUnrecognised(ls) == \A i \in 1..Len(ls) : ~Recognised(ls[i])

\* C5 as claimed: FinishedAll is reached within ClaimedCycles update() cycles.
C5_ClaimedBound ==
    finishedAll => cycles <= ClaimedCycles(files[file].lines)

\* C5 as amended: with run Enabled and the clock advancing by at least one period
\* per cycle, the engine is no longer Running after EngineCycles update() cycles,
\* it is then FinishedAll, and a program of n unrecognised records (or none at
\* all) takes exactly n + 1 cycles.
C5_CycleBound ==
    /\ running =>
         /\ file # NULL
         /\ cycles < EngineCycles(files[file].lines)
    /\ finishedAll =>
         /\ cycles <= EngineCycles(files[file].lines)
         /\ AllUnrecognised(files[file].lines) => cycles = files[file].count + 1
    /\ (file # NULL /\ ~running) => finishedAll

\* A program of three recognised records, one of them timed, has run to FinishedAll
C5_Witness ==
    /\ finishedAll
    /\ files[file].count = 3
    /\ Len(startedLog) = 3
    /\ \E i \in 1..3 : startedLog[i].duration > CyclePeriod
    /\ cycles > files[file].count + 1

----------------------------------------------------------------------------
(* C6 *)

\* C6: ProgramRunner::start, in whatever state it is called, deletes the active
\* primitive if there is one, commands the actuators to stop, clears
\* FinishedAll and leaves no active primitive; given a program it leaves the
\* engine Running with that program, unread, as its source (given nullptr it
\* leaves the engine not Running).
C6_StartResets ==
    [][op' = "start" =>
           /\ current' = NULL
           /\ cmds' = <<>>
           /\ freed' = (IF current = NULL THEN 0 ELSE 1)
           /\ acts' = <<"stop">>
           /\ motion' = "stop"
           /\ ~finishedAll'
           /\ running' = (file' # NULL)
           /\ file' # NULL =>
                /\ file' = fsActive'
                /\ file' \in DOMAIN files'
                /\ files'[file'].idx = 0
                /\ \E i \in 1..Len(entries) :
                       /\ files'[file'].lines = entries[i].lines
                       /\ files'[file'].count = entries[i].count]_vars

\* start was called while a primitive was in flight: the primitive was deleted
\* and the engine runs the given program
C6_Witness ==
    /\ op = "start"
    /\ freed = 1
    /\ running
    /\ current = NULL

----------------------------------------------------------------------------
(* C7 *)

\* Not Running and no active primitive
IdleAsClaimed == ~running /\ current = NULL

\* Not Running, not FinishedAll, no active primitive
Idle == ~running /\ ~finishedAll /\ current = NULL

StopPostcondition ==
    /\ current' = NULL
    /\ cmds' = <<>>
    /\ file' = NULL
    /\ ~running'
    /\ ~finishedAll'
    /\ acts' = <<"stop">>
    /\ motion' = "stop"

\* C7 as claimed: stop() on an engine that is not Running and has no active
\* primitive changes no engine state.
C7_ClaimedNoOp ==
    [][(op' = "stop" /\ IdleAsClaimed) => Engine(World') = Engine(World)]_vars

\* C7 as amended: stop() from any state commands the actuators to stop and leaves
\* no active primitive, no program reference, running = false and
\* finishedAll = false; a second stop() right after it changes nothing; and on
\* an engine that is not Running, not FinishedAll and has no active primitive it
\* changes no engine state and issues nothing but the stop command.
C7_StopIdempotent ==
    [][op' = "stop" =>
           /\ StopPostcondition
           /\ op = "stop" => Engine(World') = Engine(World)
           /\ Idle => Engine(World') = Engine(World)]_vars

\* stop() was called on an engine that no program was ever given to
C7_Witness ==
    /\ op = "stop"
    /\ fsActive = NULL
    /\ freed = 0

----------------------------------------------------------------------------
(* C8 *)

\* C8: a loop() iteration that accepts a start edge and finds no program of the
\* selected name reports "not found", prints no "start", leaves the engine as it
\* was (not Running, no active primitive) and issues no actuator command.
C8_NotFound ==
    [][(EdgeSeen /\ enabled /\ ~running
            /\ FindEntry(entries, DefaultProgramSelector_selectProgram, 1) = 0) =>
           /\ Printed(reports', "not found")
           /\ ~Printed(reports', "start")
           /\ Engine(World') = Engine(World)
           /\ ~running'
           /\ current' = NULL
           /\ acts' = <<>>]_vars

\* The supervisor has just reported a program that the catalog does not hold
C8_Witness ==
    /\ op = "loop"
    /\ Printed(reports, "not found")
    /\ ~running

----------------------------------------------------------------------------
(* C9 *)

\* The program source the accepted edge opened: the catalog's program, with at
\* most its first record read, and that record echoed in this iteration
OpenedFromFirstRecord ==
    /\ file' # NULL
    /\ file' \in DOMAIN files'
    /\ LET f == files'[file']
           i == FindEntry(entries, DefaultProgramSelector_selectProgram, 1)
       IN  /\ i # 0
           /\ f.lines = entries[i].lines
           /\ f.idx = IF f.count = 0 THEN 0 ELSE 1
           /\ f.count > 0 =>
                \E n \in 1..Len(reports') :
                    reports'[n] = [tag |-> "line", text |-> f.lines[1]]
           /\ startedLog' = Primitives(SubSeq(f.lines, 1, f.idx))

\* C9: an engine that is not Running (FinishedAll, cancelled or never started)
\* becomes Running, or has a primitive started, only in a loop() iteration that
\* accepts a start edge while run is Enabled; and that iteration opens the
\* program anew and executes it from its first record.
C9_RestartOnlyByEdge ==
    [][/\ (~running /\ running') => StartAccepted
       /\ (~running /\ DriveIssued(acts')) => StartAccepted
       /\ StartAccepted => OpenedFromFirstRecord]_vars

\* A program runs again, started by an edge after an earlier run reached FinishedAll
C9_Witness ==
    /\ restarted
    /\ op = "loop"
    /\ Printed(reports, "start")
    /\ startedLog # <<>>

----------------------------------------------------------------------------
(* C10 *)

\* C10: smartDelay returns true only if isrStop did not set stopReq at any
\* moment between the call and the return; a flag set during the wait, the last
\* slice included, makes it return false, within one slice of the flag being set.
C10_CompletedMeansNoStop ==
    /\ (sdPc = "done" /\ sdRet) => ~sdFlagSeen
    /\ (sdPc = "done" /\ sdSetAt # -1) =>
          (~sdRet /\ Elapsed(millis, sdSetAt) <= SLICE_MS)

----------------------------------------------------------------------------
(* C11 *)

\* C11: whenever smartDelay returns false it returns from a flag check that
\* found stopReq set, that check has commanded Motor(Stop, 0) and disabled the
\* enable line, and the requested wait has not elapsed; and a flag check that
\* finds stopReq set returns false at once.
C11_InterruptedMeansStopped ==
    [][/\ (sdPc # "done" /\ sdPc' = "done" /\ ~sdRet') =>
              /\ sdPc = "check"
              /\ stopReq
              /\ MotorState' = Motor(Stop, 0)
              /\ enPin' = EnLevel(FALSE)
              /\ millis' = millis
              /\ Elapsed(millis', sdT0) < sdMs
       /\ (sdPc = "check" /\ stopReq /\ sdPc' # "check") =>
              (sdPc' = "done" /\ ~sdRet')]_vars

\* smartDelay has returned false on a flag set during the wait, with part of
\* the wait left
C11_Witness ==
    /\ sdPc = "done"
    /\ ~sdRet
    /\ sdSetAt # -1
    /\ MotorState = StopAndDisable
    /\ Elapsed(millis, sdT0) + SLICE_MS <= sdMs

----------------------------------------------------------------------------
(* C12 *)

\* loop() has stopped the route: it is in the polling loop of
\* waitForStartAfterStop with the motors stopped, the enable line off and
\* runEnabled false
HaltedInWait ==
    /\ pc = "W_poll"
    /\ MotorState = StopAndDisable
    /\ ~runEnabled

\* loop() calls the next step of the route
RouteStepCalled ==
    /\ pc \in {"L_top", "F_done", "R_done"}
    /\ pc' \in {"F_entry", "R_entry", "P_wait"}

\* C12: once the STOP interrupt has set the flag inside Forw, Rotate or the
\* final pause (and two slices of the explored run are left), the route is
\* eventually halted in waitForStartAfterStop with the motors stopped, the
\* enable line off and runEnabled false; and loop() calls no step of the
\* route between that interrupt and the next START press event.
C12_StopHaltsRoute ==
    /\ (hist.stopInStep /\ millis + 2 * SLICE_MS <= deadline) ~> HaltedInWait
    /\ [][hist.stopInStep => ~RouteStepCalled]_vars

\* Halted after a STOP pressed later than the first Forw, that is inside
\* Rotate or the final pause
C12_Witness ==
    /\ HaltedInWait
    /\ hist.stopInStep
    /\ ~stopReq
    /\ isrLast > START_AT + FORW_TIME

----------------------------------------------------------------------------
(* C13 *)

\* The step returns from Rotate
RotateReturns == pc # "R_done" /\ pc' = "R_done"

\* return true; of the tolerance branch
ExitConverged ==
    /\ pc = "R_sample"
    /\ rot'.ret
    /\ rot'.stableCnt >= STABLE_CNT
    /\ Elapsed(millis, rot.t0) <= TIMEOUT_MS

\* return false; of the timeout branch
ExitTimeout ==
    /\ pc = "R_sample"
    /\ ~rot'.ret
    /\ Elapsed(millis, rot.t0) > TIMEOUT_MS

\* return false; after shouldStopNow() or smartDelay() has found stopReq set
ExitStopped ==
    /\ ~rot'.ret
    /\ stopReq
    /\ \/ pc \in {"R_entry", "R_loop", "R_micro"}
       \/ pc \notin {"R_entry", "R_loop", "R_micro", "R_sample"} /\ Returned /\ ~sdRet

\* C13: every return of Rotate is exactly one of the convergence exit
\* (true), the timeout exit (false) and the stop exit (false), and at every
\* return the motors are commanded Stop with the enable line off.
C13_ThreeExitsAllStopped ==
    [][RotateReturns =>
           /\ MotorState' = Motor(Stop, 0)
           /\ enPin' = EnLevel(FALSE)
           /\ \/ ExitConverged /\ ~ExitTimeout /\ ~ExitStopped
              \/ ~ExitConverged /\ ExitTimeout /\ ~ExitStopped
              \/ ~ExitConverged /\ ~ExitTimeout /\ ExitStopped]_vars

\* Rotate has returned through the timeout exit
C13_Witness ==
    /\ pc = "R_done"
    /\ ~rot.ret
    /\ ~stopReq
    /\ Elapsed(millis, rot.t0) > TIMEOUT_MS
    /\ MotorState = Motor(Stop, 0)

----------------------------------------------------------------------------
(* C14 *)

\* C14: an invocation of Rotate during which the STOP interrupt set the flag
\* returns false: it has never returned true with the flag set.
C14_StopDuringRotateMeansFalse ==
    (pc = "R_done" /\ hist.isr /\ stopReq) => ~rot.ret

----------------------------------------------------------------------------
(* C15 *)

\* C15: inside Rotate the stability counter is the number of main-loop
\* samples, counted back from the latest, that were all within ANGLE_TOL of
\* the target (so a main-loop sample outside tolerance puts it at zero), and
\* Rotate has returned true only with that number at STABLE_CNT.
C15_TrueOnlyAfterStableRun ==
    /\ InRotate => rot.stableCnt = hist.tolRun
    /\ (pc = "R_done" /\ rot.ret) =>
           /\ rot.stableCnt = STABLE_CNT
           /\ hist.tolRun = STABLE_CNT

\* Rotate has returned true in an invocation that also sampled a heading
\* outside tolerance
C15_Witness ==
    /\ pc = "R_done"
    /\ rot.ret
    /\ ~hist.allTol
    /\ hist.tolRun = STABLE_CNT

----------------------------------------------------------------------------
(* C16 *)

\* C16: within an invocation of Rotate, from the main-loop sample whose error
\* has the sign opposite to that of the initial error and a magnitude above
\* OVERSHOOT_DEG, overshot is set and stays set, and the motors are never
\* commanded anything but Stop or cmdOpp.
C16_OvershootLatched ==
    /\ [](InRotate /\ hist.crossed =>
              /\ rot.overshot
              /\ motorDir \in {Stop, cmdOpp(rot.phi)})
    /\ [][InRotate /\ InRotate' /\ rot.overshot => rot'.overshot]_vars

\* After an overshoot a pulse of the micro zone drives with cmdOpp although
\* the error has the sign that selects cmdMain
C16_Witness ==
    /\ pc \in {"R_microKick", "R_microHold"}
    /\ hist.crossed
    /\ rot.overshot
    /\ rot.err2pos
    /\ motorDir = cmdOpp(rot.phi)
    /\ motorDir # cmdMain(rot.phi)

----------------------------------------------------------------------------
(* C17 *)

\* The longest iteration of Rotate's main loop: the three pulses of the micro
\* zone, each wait rounded up to whole slices
LongestIteration ==
    MICRO_STEPS * (MICRO_KICK_MS + MICRO_HOLD_MS + MICRO_PAUSE_MS + 3 * SLICE_MS)

\* Rotate is running, no sample has been within tolerance, STOP has not been
\* pressed, and the explored run reaches past the timeout of this invocation
NeverInToleranceSoFar ==
    /\ InRotate
    /\ pc # "R_entry"
    /\ pc # "R_init"
    /\ ~hist.everTol
    /\ ~stopReq
    /\ rot.t0 + TIMEOUT_MS + LongestIteration <= deadline

\* Rotate has returned false with the motors stopped
ReturnedFalseStopped ==
    /\ pc = "R_done"
    /\ ~rot.ret
    /\ MotorState = Motor(Stop, 0)

\* C17: an invocation of Rotate whose samples never come within tolerance,
\* with no stop request, ends: it returns false with the motors stopped; the
\* main-loop iteration that finds more than TIMEOUT_MS elapsed commands Stop
\* and returns false; and Rotate has never returned true without a sample
\* within tolerance.
C17_TimeoutEndsRotate ==
    /\ NeverInToleranceSoFar ~> (ReturnedFalseStopped \/ hist.everTol \/ stopReq)
    /\ [][(pc = "R_sample" /\ pc' # pc /\ Elapsed(millis, rot.t0) > TIMEOUT_MS) =>
              /\ pc' = "R_done"
              /\ ~rot'.ret
              /\ MotorState' = Motor(Stop, 0)]_vars
    /\ []((pc = "R_done" /\ rot.ret) => hist.everTol)

\* Rotate has timed out without a sample within tolerance and without a stop
\* request
C17_Witness ==
    /\ ReturnedFalseStopped
    /\ ~hist.everTol
    /\ ~stopReq
    /\ Elapsed(millis, rot.t0) > TIMEOUT_MS
    /\ Elapsed(millis, rot.t0) <= TIMEOUT_MS + LongestIteration

----------------------------------------------------------------------------
(* C18 *)

\* The time Rotate takes when every sample is within tolerance: the startup
\* kick and the pauses between the samples, each rounded up to whole slices
ConvergeTime == KICK_MS + SETTLE_MS + STABLE_CNT * (TOL_PAUSE_MS + SLICE_MS)

\* Rotate is past its entry check, the target was within tolerance of the
\* heading at the call and so was every sample since, STOP has not been
\* pressed, and the explored run is long enough for it to converge
AlwaysInToleranceSoFar ==
    /\ InRotate
    /\ pc # "R_entry"
    /\ pc # "R_init"
    /\ hist.allTol
    /\ ~stopReq
    /\ rot.t0 + ConvergeTime <= deadline

\* C18: an invocation of Rotate whose target is within tolerance of the
\* heading at the call and whose samples all stay within tolerance, with no
\* stop request, returns, and it has then returned true, after exactly
\* STABLE_CNT main-loop samples, with the motors commanded Stop.
C18_InToleranceConverges ==
    /\ AlwaysInToleranceSoFar ~> (pc = "R_done" \/ ~hist.allTol \/ stopReq)
    /\ []((pc = "R_done" /\ hist.allTol /\ ~stopReq) =>
              /\ rot.ret
              /\ hist.mainSamples = STABLE_CNT
              /\ MotorState = Motor(Stop, 0))

\* Rotate(1) has returned true, every sample within tolerance
C18_Witness ==
    /\ pc = "R_done"
    /\ rot.ret
    /\ rot.phi = Deg(1)
    /\ hist.allTol
    /\ ~stopReq
    /\ hist.mainSamples = STABLE_CNT

----------------------------------------------------------------------------
(* C19 *)

\* The step is one of the interrupt handler: the main program stays where it
\* is and no actuator command is issued
StepOfIsr ==
    /\ pc' = pc
    /\ sdPc' = sdPc
    /\ millis' = millis
    /\ runEnabled' = runEnabled
    /\ MotorState' = MotorState

\* C19: stopReq is set only by a step of isrStop, which issues no actuator
\* command, and it is cleared only by the main program in
\* waitForStartAfterStop, in the step that has the motors commanded Stop and
\* the enable line off; no step of smartDelay, Forw or Rotate clears it.
C19_OneProducerOneConsumer ==
    [][/\ (~stopReq /\ stopReq') => (StepOfIsr /\ isrLast' = millis)
       /\ isrLast' # isrLast => StepOfIsr
       /\ (stopReq /\ ~stopReq') =>
              /\ pc = "W_entry"
              /\ pc' = "W_poll"
              /\ MotorState' = Motor(Stop, 0)
              /\ enPin' = EnLevel(FALSE)
       /\ (InStep \/ InCall) => (stopReq => stopReq')]_vars

\* waitForStartAfterStop has cleared a flag that the interrupt set while the
\* route was running or the robot halted
C19_Witness ==
    /\ pc = "W_poll"
    /\ ~stopReq
    /\ hist.isrSince
    /\ isrLast > START_AT
    /\ MotorState = StopAndDisable

----------------------------------------------------------------------------
(* C20 *)

\* C20: after a START press event taken while the robot waits (before the
\* first start, or halted), with no STOP interrupt since that event, loop()
\* goes on to the first Forw of the route: it does not enter
\* waitForStartAfterStop again, whatever STOP interrupts came before the
\* press.
C20_OnePressStarts ==
    (hist.pressed /\ ~hist.isrSince) => pc # "W_entry"

----------------------------------------------------------------------------
(* C21 *)

\* C21: for every whole number of degrees a from -MaxAngle to MaxAngle,
\* norm180(a) is congruent to a modulo 360 and lies in (-180, 180].
C21_Norm180HalfOpen ==
    norm.done =>
        /\ (norm.r - norm.a) % Deg(360) = 0
        /\ -Deg(180) < norm.r
        /\ norm.r <= Deg(180)

----------------------------------------------------------------------------
(* C22 *)

\* ProgramRunner::update has polled the active primitive, found it finished
\* and deleted it
DiscardedFinished ==
    /\ op' = "update"
    /\ running
    /\ current # NULL
    /\ freed' = 1

\* C22: the update() that finds the active primitive finished and discards
\* it goes on, in the same call, to read the next record of the program or,
\* the program exhausted, to enter FinishedAll.
C22_FinishedFallsThrough ==
    [][DiscardedFinished => (Printed(reports', "line") \/ finishedAll')]_vars

----------------------------------------------------------------------------
(* C23 *)

\* The error magnitude of the sample the main loop is taking
SampledAe == Abs(norm180(rot.target - mpu_getAngleZ(rot)))

\* The main-loop iteration that samples, has not timed out and is outside
\* tolerance
ZoneIteration ==
    /\ pc = "R_sample"
    /\ pc' # pc
    /\ Elapsed(millis, rot.t0) <= TIMEOUT_MS
    /\ SampledAe > ANGLE_TOL

\* The step commands a rotation at PWM speed and enters smartDelay(ms), Rotate
\* going to label p
Drives(p, speed, ms) ==
    /\ pc' = p
    /\ motorDir' \in {RotateRight, RotateLeft}
    /\ motorSpeed' = speed
    /\ sdPc' = "t0"
    /\ sdMs' = ms

\* The step commands Stop and enters smartDelay(ms), Rotate going to label p
Pauses(p, ms) ==
    /\ pc' = p
    /\ MotorState' = Motor(Stop, 0)
    /\ sdPc' = "t0"
    /\ sdMs' = ms

\* smartDelay has returned true to Rotate at label p
Waited(p) == pc = p /\ pc' # pc /\ sdPc = "done" /\ sdRet

\* C23: a main-loop iteration outside tolerance acts by ae alone.  ae >= 25:
\* drive at ROT_FAST_PWM for a 10 ms slice; 10 <= ae < 25: drive at
\* ROT_MID_PWM for 12 ms; 6 <= ae < 10: kick at FINE_PWM, hold at MIN_PWM,
\* Stop and pause, once; ae < 6: at most MICRO_STEPS pulses of kick, hold,
\* Stop and pause, each after a new sample, the pulses ending early on a
\* sample within tolerance or an error that changed sign over the pulse.
C23_ZonesByError ==
    /\ [][/\ (ZoneIteration /\ SampledAe >= Deg(25)) =>
                 Drives("R_wait", ROT_FAST_PWM, FAR_SLICE_MS)
          /\ (ZoneIteration /\ Deg(10) <= SampledAe /\ SampledAe < Deg(25)) =>
                 Drives("R_wait", ROT_MID_PWM, MID_SLICE_MS)
          /\ (ZoneIteration /\ Deg(6) <= SampledAe /\ SampledAe < Deg(10)) =>
                 Drives("R_nearKick", FINE_PWM, NEAR_KICK_MS)
          /\ Waited("R_nearKick") =>
                 (Drives("R_nearHold", MIN_PWM, NEAR_HOLD_MS) /\ motorDir' = motorDir)
          /\ Waited("R_nearHold") => Pauses("R_wait", NEAR_PAUSE_MS)
          /\ (ZoneIteration /\ SampledAe < Deg(6)) =>
                 (pc' = "R_micro" /\ rot'.i = 0 /\ MotorState' = MotorState)
          /\ (pc = "R_micro" /\ pc' # pc /\ ~stopReq) =>
                 (IF rot.i < MICRO_STEPS THEN pc' = "R_microSample" ELSE pc' = "R_loop")
          /\ (pc = "R_microSample" /\ pc' # pc) =>
                 (IF SampledAe <= ANGLE_TOL
                  THEN pc' = "R_loop" /\ MotorState' = MotorState
                  ELSE Drives("R_microKick", FINE_PWM, MICRO_KICK_MS))
          /\ Waited("R_microKick") =>
                 (Drives("R_microHold", MIN_PWM, MICRO_HOLD_MS) /\ motorDir' = motorDir)
          /\ Waited("R_microHold") => Pauses("R_microPause", MICRO_PAUSE_MS)
          /\ Waited("R_microPause") =>
                 /\ MotorState' = MotorState
                 /\ (IF (norm180(rot.target - mpu_getAngleZ(rot)) >= 0) # rot.err2pos
                     THEN pc' = "R_loop"
                     ELSE pc' = "R_micro" /\ rot'.i = rot.i + 1)]_vars
    /\ [](pc \in {"R_microSample", "R_microKick", "R_microHold", "R_microPause"} =>
              rot.i < MICRO_STEPS)

\* The third pulse of the micro zone has been given
C23_Witness ==
    /\ pc = "R_microPause"
    /\ rot.i = MICRO_STEPS - 1
    /\ sdPc = "done"
    /\ sdRet
    /\ MotorState = Motor(Stop, 0)

----------------------------------------------------------------------------
(* C24 *)

\* The clock readings of the coming loop() iterations
ComingReadings == {(now + k * CyclePeriod) % ClockMod : k \in 0..MaxTicks}

\* A timed primitive that has finished ignores every later update()
FinishedStaysFinished ==
    (current # NULL /\ cmds[current].kind \in TimedIds) =>
        \A t \in ComingReadings :
            LET w1 == TimedCommand_update(Fresh([World EXCEPT !.now = t]), current)
            IN  ~w1.cmds[current].active =>
                    \A t2 \in ComingReadings :
                        LET w2 == [Fresh(w1) EXCEPT !.now = t2]
                        IN  TimedCommand_update(w2, current) = w2

\* C24: a timed primitive started at t0 with duration d stays active, and
\* nothing is commanded, over an update() at which (now - t0) mod 2^w < d; at
\* the first update() at which (now - t0) mod 2^w >= d it finishes with
\* exactly one stop command, also when the clock wrapped on the way; and an
\* update() of a finished primitive changes nothing.
C24_TimedExpiry ==
    /\ [][(op' = "update" /\ running /\ current # NULL
              /\ cmds[current].kind \in TimedIds) =>
             (IF (now' - cmds[current].startTime) % ClockMod < cmds[current].duration
              THEN /\ current' = current
                   /\ cmds'[current].active
                   /\ acts' = <<>>
                   /\ freed' = 0
              ELSE /\ acts' = <<"stop">>
                   /\ freed' = 1
                   /\ current' = NULL)]_vars
    /\ []FinishedStaysFinished

\* A timed primitive started before the clock wrapped has finished after it
C24_Witness ==
    /\ op = "update"
    /\ freed = 1
    /\ acts = <<"stop">>
    /\ Len(startedLog) > 0
    /\ startedLog[Len(startedLog)].kind \in TimedIds
    /\ now < startedLog[Len(startedLog)].duration

----------------------------------------------------------------------------
(* C25 *)

\* C25: after any sequence of start(), stop() and update() on the ProgramRunner,
\* running and finishedAll are never both true, a primitive is held only
\* while running, and the runner is running only while a program source is
\* attached.
C25_RunnerInvariants ==
    /\ ~(running /\ finishedAll)
    /\ (current # NULL) => running
    /\ running => (file # NULL)

\* start() on a runner that had finished its program: it runs again
C25_Witness ==
    /\ op = "start"
    /\ restarted
    /\ running
    /\ file # NULL
    /\ current = NULL

----------------------------------------------------------------------------
(* C26 *)

\* The micro zone has sampled err2 and commanded its pulse
InMicroPulse == pc \in {"R_microKick", "R_microHold"}

\* C26: in Rotate, for phi > 0 and for phi < 0, while overshot is not latched
\* and the error still has its initial sign, the pulse of the micro zone is
\* commanded in the direction the far, mid and near zones command, cmdMain.
C26_MicroDrivesMain ==
    (InMicroPulse /\ ~rot.overshot /\ (rot.err2pos <=> (rot.sign0 = 1))) =>
        /\ cmd(rot) = cmdMain(rot.phi)
        /\ rot.cmd2 = cmd(rot)

----------------------------------------------------------------------------
(* C27 *)

\* C27: from the moment stopReq is set until waitForStartAfterStop clears it,
\* Forw and Rotate call Motor with no drive direction and positive speed,
\* whatever the slice of smartDelay the ISR fell in: a step taken with the
\* flag set that changes the motor outputs stops them.
C27_NoDriveWhileStopRequested ==
    [][(stopReq /\ MotorState' # MotorState) =>
           (motorDir' = Stop /\ motorSpeed' = 0)]_vars

----------------------------------------------------------------------------
(* C28 *)

\* What the engine holds: the runner, its primitive, the program sources and
\* the actuators
EngineState ==
    <<file, current, running, finishedAll, cmds, files, fsActive, entries,
      motion, paint>>

\* A loop() iteration in which the trigger reported no rising edge
NoStartEdge == op' = "loop" /\ ~(last' /\ ~last)

\* A timed primitive is held, and the clock shows its duration has passed
Overdue ==
    /\ current # NULL
    /\ cmds[current].kind \in TimedIds
    /\ (now - cmds[current].startTime) % ClockMod >= cmds[current].duration

\* C28: while the run is disabled, ProgramController::update with no start
\* edge changes no engine state and commands no actuator, so the primitive is
\* neither polled nor stopped and what it commanded stays in force; with the
\* run enabled the primitive held is finished at the first iteration at which
\* the clock shows at least its duration since its start, and not before.
C28_DisabledFreezes ==
    /\ [][(NoStartEdge /\ ~enabled) =>
             /\ EngineState' = EngineState
             /\ acts' = <<>>
             /\ freed' = 0
             /\ reports' = <<>>]_vars
    /\ [][(op' = "loop" /\ enabled /\ current # NULL
              /\ cmds[current].kind \in TimedIds) =>
             (IF (now' - cmds[current].startTime) % ClockMod < cmds[current].duration
              THEN /\ current' = current
                   /\ motion' = motion
                   /\ acts' = <<>>
              ELSE /\ current' = NULL
                   /\ acts' = <<"stop">>
                   /\ motion' = "stop")]_vars

\* A disabled iteration has passed with the primitive overdue: it still drives
C28_Witness ==
    /\ op = "loop"
    /\ ~enabled
    /\ reports = <<>>
    /\ Overdue
    /\ cmds[current].active
    /\ motion = "forward"

====
